---- MODULE Spec2Model ----
(***************************************************************************)
(* Geodesic puzzle (2DWorld): the physics core (engine/physics.js), the    *)
(* level validator (game/generator.js) and their callers.                  *)
(*                                                                         *)
(* Numbers.  The program computes in IEEE doubles.  The model computes in  *)
(* fixed point: an integer n stands for the real n / Scale, every product  *)
(* and quotient is rounded to the nearest multiple of 1 / Scale, and a     *)
(* square root is the integer square root.  Every arithmetic expression of *)
(* the source is evaluated in the source's order with these operations.    *)
(***************************************************************************)
EXTENDS Integers, Sequences, FiniteSets, TLC

\* ------------------------------------------------------------------ numbers

\* one unit of the program's reals, in model integers
Scale == 1000

\* n / d rounded to the nearest integer (d > 0)
RoundDiv(n, d) == (n + (d \div 2)) \div d

\* the product a * b of two reals
Mul(a, b) == (a \div Scale) * b + RoundDiv((a % Scale) * b, Scale)

\* the quotient a / b of two reals (b # 0)
Div(a, b) == IF b > 0 THEN RoundDiv(a * Scale, b) ELSE RoundDiv((0 - a) * Scale, 0 - b)

\* the real a divided by, or multiplied with, a literal integer of the source
DivInt(a, n) == RoundDiv(a, n)

\* F applied to the value of v: v is evaluated once, whatever F does with it
Strict(v, F(_)) == CHOOSE r \in { F(x) : x \in { v } } : TRUE

RECURSIVE NewtonSqrt(_, _)
NewtonSqrt(n, r) ==
    Strict((r + n \div r) \div 2,
           LAMBDA next : IF next >= r THEN r ELSE NewtonSqrt(n, next))

\* floor of the square root of the natural number n
ISqrt(n) == Strict(n, LAMBDA m : IF m < 2 THEN m ELSE NewtonSqrt(m, m))

\* Math.sqrt(a * a + b * b) for two reals a, b: the squares are exact
Hypot(a, b) == ISqrt(a * a + b * b)

Abs(a) == IF a < 0 THEN 0 - a ELSE a

\* ------------------------------------------------------------------ math.js

vec2(x, y) == [x |-> x, y |-> y]

length2D(v) == Hypot(v.x, v.y)

add2D(a, b) == [x |-> a.x + b.x, y |-> a.y + b.y]

scale2D(v, s) == [x |-> Mul(v.x, s), y |-> Mul(v.y, s)]

\* ------------------------------------------------------------------ physics.js

\* the literals of physics.js, as reals
HeightOffset == 500
GradientEps == 10
ChristoffelEps == 20
StationarySpeed == 1
GravityStrength == 2000
Half == 500
CaptureRadius == 300

\* a faulty height, whose divisor is dist + 0.25
RECURSIVE HeightSumQuarterOffset(_, _, _, _)
HeightSumQuarterOffset(ms, k, x, y) ==
    IF k > Len(ms) THEN 0
    ELSE Strict(Hypot(x - ms[k].x, y - ms[k].y),
                LAMBDA dist : HeightSumQuarterOffset(ms, k + 1, x, y)
                                - Div(ms[k].strength, dist + HeightOffset \div 2))

\* a faulty height, whose sum starts at -1 rather than at 0
RECURSIVE HeightSumFromMinusOne(_, _, _, _)
HeightSumFromMinusOne(ms, k, x, y) ==
    IF k > Len(ms) THEN 0 - Scale
    ELSE Strict(Hypot(x - ms[k].x, y - ms[k].y),
                LAMBDA dist : HeightSumFromMinusOne(ms, k + 1, x, y)
                                - Div(ms[k].strength, dist + HeightOffset))

\* for (const mass of masses) { ... height -= mass.strength / (dist + 0.5) }
RECURSIVE HeightSum(_, _, _, _)
HeightSum(ms, k, x, y) ==
    IF k > Len(ms) THEN 0
    ELSE Strict(Hypot(x - ms[k].x, y - ms[k].y),
                LAMBDA dist : HeightSum(ms, k + 1, x, y)
                                - Div(ms[k].strength, dist + HeightOffset))

gravitationalHeight(ms, x, y) == HeightSum(ms, 1, x, y)

\* computeGradient, from the three heights it reads
GradientFrom(z0, zx, zy, eps) ==
    [dzdx |-> Div(zx - z0, eps), dzdy |-> Div(zy - z0, eps)]

computeGradient(ms, x, y, eps) ==
    Strict(<< gravitationalHeight(ms, x, y),
              gravitationalHeight(ms, x + eps, y),
              gravitationalHeight(ms, x, y + eps) >>,
           LAMBDA z : GradientFrom(z[1], z[2], z[3], eps))

\* a faulty metric, which lacks the identity part
MetricFromGradientOnly(grad) ==
    [g11 |-> Mul(grad.dzdx, grad.dzdx),
     g12 |-> Mul(grad.dzdx, grad.dzdy),
     g21 |-> Mul(grad.dzdx, grad.dzdy),
     g22 |-> Mul(grad.dzdy, grad.dzdy)]

\* computeMetric, from the gradient it reads
MetricFrom(grad) ==
    [g11 |-> Scale + Mul(grad.dzdx, grad.dzdx),
     g12 |-> Mul(grad.dzdx, grad.dzdy),
     g21 |-> Mul(grad.dzdx, grad.dzdy),
     g22 |-> Scale + Mul(grad.dzdy, grad.dzdy)]

computeMetric(ms, x, y) == Strict(computeGradient(ms, x, y, GradientEps), MetricFrom)

\* computeChristoffel: the centered differences of the metric
MetricDerivatives(gxp, gxm, gyp, gym, eps) ==
    [dg11dx |-> Div(gxp.g11 - gxm.g11, 2 * eps),
     dg11dy |-> Div(gyp.g11 - gym.g11, 2 * eps),
     dg12dx |-> Div(gxp.g12 - gxm.g12, 2 * eps),
     dg12dy |-> Div(gyp.g12 - gym.g12, 2 * eps),
     dg22dx |-> Div(gxp.g22 - gxm.g22, 2 * eps),
     dg22dy |-> Div(gyp.g22 - gym.g22, 2 * eps)]

\* computeChristoffel: the determinant of the metric
MetricDet(g) == Mul(g.g11, g.g22) - Mul(g.g12, g.g21)

\* computeChristoffel: the inverse of the metric, from the metric and its determinant
InverseFrom(g, det) ==
    [gi11 |-> Div(g.g22, det),
     gi12 |-> Div(0 - g.g12, det),
     gi21 |-> Div(0 - g.g21, det),
     gi22 |-> Div(g.g11, det)]

MetricInverse(g) == Strict(MetricDet(g), LAMBDA det : InverseFrom(g, det))

\* the symbols of the older physics.js, which drop the off-diagonal entries of
\* the inverse metric
ChristoffelSymbolsDiagonal(gi, d) ==
    [G111 |-> Mul(Mul(Half, gi.gi11), d.dg11dx),
     G112 |-> Mul(Mul(Half, gi.gi11), d.dg11dy),
     G122 |-> Mul(Mul(Half, gi.gi11), 2 * d.dg12dy - d.dg22dx),
     G211 |-> Mul(Mul(Half, gi.gi22), 2 * d.dg12dx - d.dg11dy),
     G212 |-> Mul(Mul(Half, gi.gi22), d.dg22dx),
     G222 |-> Mul(Mul(Half, gi.gi22), d.dg22dy)]

\* computeChristoffel: the six symbols, from the inverse metric and the differences
ChristoffelSymbols(gi, d) ==
    [G111 |-> Mul(Half, Mul(gi.gi11, d.dg11dx) + Mul(gi.gi12, 2 * d.dg12dx - d.dg11dy)),
     G112 |-> Mul(Half, Mul(gi.gi11, d.dg11dy) + Mul(gi.gi12, d.dg22dx)),
     G122 |-> Mul(Half, Mul(gi.gi11, 2 * d.dg12dy - d.dg22dx) + Mul(gi.gi12, d.dg22dy)),
     G211 |-> Mul(Half, Mul(gi.gi21, d.dg11dx) + Mul(gi.gi22, 2 * d.dg12dx - d.dg11dy)),
     G212 |-> Mul(Half, Mul(gi.gi21, d.dg11dy) + Mul(gi.gi22, d.dg22dx)),
     G222 |-> Mul(Half, Mul(gi.gi21, 2 * d.dg12dy - d.dg22dx) + Mul(gi.gi22, d.dg22dy))]

\* computeChristoffel, from the metric at the point and at its four neighbours
ChristoffelFrom(g, gxp, gxm, gyp, gym, eps) ==
    Strict(<< MetricInverse(g), MetricDerivatives(gxp, gxm, gyp, gym, eps) >>,
           LAMBDA t : ChristoffelSymbols(t[1], t[2]))

computeChristoffel(ms, x, y, eps) ==
    Strict(<< computeMetric(ms, x, y),
              computeMetric(ms, x + eps, y), computeMetric(ms, x - eps, y),
              computeMetric(ms, x, y + eps), computeMetric(ms, x, y - eps) >>,
           LAMBDA g : ChristoffelFrom(g[1], g[2], g[3], g[4], g[5], eps))

\* geodesicAcceleration, from the symbols it reads
GeodesicFrom(G, vx, vy) ==
    IF Hypot(vx, vy) < StationarySpeed THEN vec2(0, 0)
    ELSE [x |-> 0 - (Mul(Mul(G.G111, vx), vx) + Mul(Mul(2 * G.G112, vx), vy)
                      + Mul(Mul(G.G122, vy), vy)),
          y |-> 0 - (Mul(Mul(G.G211, vx), vx) + Mul(Mul(2 * G.G212, vx), vy)
                      + Mul(Mul(G.G222, vy), vy))]

geodesicAcceleration(ms, p, v) ==
    Strict(computeChristoffel(ms, p.x, p.y, ChristoffelEps),
           LAMBDA G : GeodesicFrom(G, v.x, v.y))

\* a faulty gravity, of strength 1.0
GravityFromUnitStrength(grad) == [x |-> 0 - grad.dzdx, y |-> 0 - grad.dzdy]

\* a faulty gravity, which pushes up the slope
GravityFromUphill(grad) ==
    [x |-> Mul(grad.dzdx, GravityStrength),
     y |-> Mul(grad.dzdy, GravityStrength)]

\* computeEffectiveGravity, from the gradient it reads
GravityFrom(grad) ==
    [x |-> Mul(0 - grad.dzdx, GravityStrength),
     y |-> Mul(0 - grad.dzdy, GravityStrength)]

computeEffectiveGravity(ms, p) ==
    Strict(computeGradient(ms, p.x, p.y, GradientEps), GravityFrom)

totalAcceleration(ms, p, v) ==
    Strict(<< geodesicAcceleration(ms, p, v), computeEffectiveGravity(ms, p) >>,
           LAMBDA a : add2D(a[1], a[2]))

\* integrateRK4: the final combination
RK4Combine(p, v, k1p, k1v, k2p, k2v, k3p, k3v, k4p, k4v) ==
    [pos |-> [x |-> p.x + DivInt(k1p.x + 2 * k2p.x + 2 * k3p.x + k4p.x, 6),
              y |-> p.y + DivInt(k1p.y + 2 * k2p.y + 2 * k3p.y + k4p.y, 6)],
     vel |-> [x |-> v.x + DivInt(k1v.x + 2 * k2v.x + 2 * k3v.x + k4v.x, 6),
              y |-> v.y + DivInt(k1v.y + 2 * k2v.y + 2 * k3v.y + k4v.y, 6)]]

\* integrateRK4: the pair (k_p, k_v) evaluated at the state (p, v)
RK4Slope(ms, p, v, dt) ==
    Strict(totalAcceleration(ms, p, v), LAMBDA a : << scale2D(v, dt), scale2D(a, dt) >>)

\* integrateRK4: the state (p, v) advanced by the fraction f of the pair k
RK4Advance(p, v, k, f) ==
    << add2D(p, scale2D(k[1], f)), add2D(v, scale2D(k[2], f)) >>

\* a faulty fourth stage, at the state advanced by half of k3
RK4Stage4AtHalfStep(ms, p, v, dt, k1, k2, k3) ==
    Strict(RK4Advance(p, v, k3, Half),
           LAMBDA s : Strict(RK4Slope(ms, s[1], s[2], dt),
                             LAMBDA k4 : RK4Combine(p, v, k1[1], k1[2], k2[1], k2[2],
                                                    k3[1], k3[2], k4[1], k4[2])))

\* integrateRK4: k4, at the state advanced by k3
RK4Stage4(ms, p, v, dt, k1, k2, k3) ==
    Strict(<< add2D(p, k3[1]), add2D(v, k3[2]) >>,
           LAMBDA s : Strict(RK4Slope(ms, s[1], s[2], dt),
                             LAMBDA k4 : RK4Combine(p, v, k1[1], k1[2], k2[1], k2[2],
                                                    k3[1], k3[2], k4[1], k4[2])))

\* integrateRK4: k3, at the state advanced by half of k2
RK4Stage3(ms, p, v, dt, k1, k2) ==
    Strict(RK4Advance(p, v, k2, Half),
           LAMBDA s : Strict(RK4Slope(ms, s[1], s[2], dt),
                             LAMBDA k3 : RK4Stage4(ms, p, v, dt, k1, k2, k3)))

\* integrateRK4: k2, at the state advanced by half of k1
RK4Stage2(ms, p, v, dt, k1) ==
    Strict(RK4Advance(p, v, k1, Half),
           LAMBDA s : Strict(RK4Slope(ms, s[1], s[2], dt),
                             LAMBDA k2 : RK4Stage3(ms, p, v, dt, k1, k2)))

integrateRK4(ms, p, v, dt) ==
    Strict(<< p, v >>,
           LAMBDA s : Strict(RK4Slope(ms, s[1], s[2], dt),
                             LAMBDA k1 : RK4Stage2(ms, s[1], s[2], dt, k1)))

\* ------------------------------------------------------------------ optional values

\* null / an object: a sequence of length 0 / 1
Null == << >>
Some(v) == << v >>
IsSet(o) == o # Null
Val(o) == o[1]

\* ------------------------------------------------------------------ state

VARIABLES
    masses,        \* physics.js: the module-level mass collection
    startPos,      \* computeTrajectory: argument
    startVel,      \* computeTrajectory: argument
    options,       \* computeTrajectory: argument, after destructuring
    trajectory,    \* computeTrajectory: local
    pos,           \* computeTrajectory: local
    vel,           \* computeTrajectory: local
    reachedGoal,   \* computeTrajectory: local
    outOfBounds,   \* computeTrajectory: local
    i,             \* computeTrajectory: loop counter
    tooClose,      \* computeTrajectory: local of the loop body
    pc,            \* computeTrajectory: "idle", "loop", "return", "done"
    caller,        \* computeTrajectory: who gets the result
    result,        \* computeTrajectory: the returned object, Null before the return
    level,         \* validateLevel: argument
    angle,         \* validateLevel: outer loop variable, degrees
    power,         \* validateLevel: inner loop variable
    vpc,           \* validateLevel: "idle", "loop", "wait", "done"
    valid,         \* validateLevel: the returned boolean
    calls,         \* history: the simulator calls of the running validateLevel
    earlier,       \* history: one earlier client call and its result, or Null
    phase,         \* Game: "menu", "aiming", "flying", "success", "failed"
    currentLevelId, \* Game
    currentLevel,  \* Game: the loaded level, Null before the first load
    aimAngle,      \* Game: degrees
    aimPower,      \* Game
    previewResult, \* Projectile: the result of the last preview, or Null
    flightIndex,   \* Projectile: currentTrajectoryIndex
    handler,       \* Game: the running handler, "none" between two handlers
    gpc,           \* generateLevel: "idle", "loop", "validate", "return"
    genAttempts,   \* generateLevel: attempts
    candidate,     \* generateLevel: candidateLevel, then level; Null outside
    setCount,      \* history: the setMasses calls since the last loadLevel began
    projState,     \* Projectile.state: "idle", "aiming", "flying", "finished"
    projTrajectory, \* Projectile.trajectory
    previewTrajectory, \* Projectile.previewTrajectory
    attempts,      \* Game
    totalShots,    \* Game
    frames,        \* history: the Game.update calls since the last launch
    genLevelId,    \* generateLevel: levelId, 0 outside
    actualSeed,    \* generateLevel: actualSeed
    rngSeed,       \* generateLevel: rng.seed
    startAndGoal,  \* generateLevel: the result of generateStartAndGoal, or Null
    genMasses,     \* generateMasses: masses
    massIndex,     \* generateMasses: i
    placeAttempts, \* generateMasses: attempts
    generated,     \* history: the level each generateLevel input returned first
    placedMasses   \* history: the masses the last generateMasses call on its own
                   \* returned, until the next call of generateLevel by
                   \* another module

physicsVars  == << masses >>
argVars      == << startPos, startVel, options >>
localVars    == << trajectory, pos, vel, reachedGoal, outOfBounds, i, tooClose >>
frameVars    == << pc, caller, result >>
validateVars == << level, angle, power, vpc, valid, calls >>
gameVars     == << phase, currentLevelId, currentLevel, aimAngle, aimPower,
                   previewResult, flightIndex, handler, gpc, genAttempts, candidate,
                   setCount >>
shotVars     == << projState, projTrajectory, previewTrajectory, attempts, totalShots,
                   frames >>
genVars      == << genLevelId, actualSeed, rngSeed, startAndGoal, genMasses, massIndex,
                   placeAttempts, generated, placedMasses >>
vars == << masses, startPos, startVel, options, trajectory, pos, vel, reachedGoal,
           outOfBounds, i, tooClose, pc, caller, result, level, angle, power, vpc,
           valid, calls, earlier, phase, currentLevelId, currentLevel, aimAngle,
           aimPower, previewResult, flightIndex, handler, gpc, genAttempts, candidate,
           setCount, projState, projTrajectory, previewTrajectory, attempts,
           totalShots, frames, genLevelId, actualSeed, rngSeed, startAndGoal,
           genMasses, massIndex, placeAttempts, generated, placedMasses >>

\* ------------------------------------------------------------------ computeTrajectory

DefaultBounds == [minX |-> -5000, maxX |-> 5000, minY |-> -5000, maxY |-> 5000]

\* the trajectory point pushed for position p
RecordPoint(ms, p) == [x |-> p.x, y |-> p.y, z |-> gravitationalHeight(ms, p.x, p.y)]

\* a faulty goal test, which also accepts a distance equal to goalRadius
GoalTestInclusive(p, goalPos, goalRadius) ==
    /\ IsSet(goalPos)
    /\ length2D([x |-> p.x - Val(goalPos).x, y |-> p.y - Val(goalPos).y]) <= goalRadius

\* if (goalPos) { ... if (distToGoal < goalRadius) ...
GoalTest(p, goalPos, goalRadius) ==
    /\ IsSet(goalPos)
    /\ length2D([x |-> p.x - Val(goalPos).x, y |-> p.y - Val(goalPos).y]) < goalRadius

\* pos.x < bounds.minX || pos.x > bounds.maxX || pos.y < bounds.minY || pos.y > bounds.maxY
OutsideBounds(p, bounds) ==
    \/ p.x < bounds.minX
    \/ p.x > bounds.maxX
    \/ p.y < bounds.minY
    \/ p.y > bounds.maxY

\* a faulty order of the tests: the bounds before the goal
IterationBranchBoundsFirst(p, opts) ==
    IF OutsideBounds(p, opts.bounds) THEN "bounds"
    ELSE IF GoalTest(p, opts.goalPos, opts.goalRadius) THEN "goal"
    ELSE "step"

\* the order of the loop body's tests on the recorded position
IterationBranch(p, opts) ==
    IF GoalTest(p, opts.goalPos, opts.goalRadius) THEN "goal"
    ELSE IF OutsideBounds(p, opts.bounds) THEN "bounds"
    ELSE "step"

\* a faulty proximity test, which looks at the first mass only
TooCloseFirstMassOnly(ms, p) ==
    /\ Len(ms) > 0
    /\ length2D([x |-> p.x - ms[1].x, y |-> p.y - ms[1].y]) < CaptureRadius

\* the loop over the masses that sets tooClose
TooClose(ms, p) ==
    \E k \in 1..Len(ms) :
        length2D([x |-> p.x - ms[k].x, y |-> p.y - ms[k].y]) < CaptureRadius

\* a faulty loop condition, which runs one iteration more
LoopContinuesOffByOne(k, maxSteps) == k <= maxSteps

\* a faulty loop condition, which runs three iterations more
LoopContinuesTwoMore(k, maxSteps) == k <= maxSteps + 2

\* the for loop's condition
LoopContinues(k, maxSteps) == k < maxSteps

\* a faulty entry, which keeps the velocity left by the call before
EnterKeepingVelocity(sp, sv, opts, who) ==
    /\ pc = "idle"
    /\ startPos' = sp
    /\ startVel' = sv
    /\ options' = opts
    /\ trajectory' = << >>
    /\ pos' = sp
    /\ vel' = vel
    /\ reachedGoal' = FALSE
    /\ outOfBounds' = FALSE
    /\ i' = 0
    /\ tooClose' = FALSE
    /\ pc' = "loop"
    /\ caller' = who
    /\ result' = Null

\* function entry: destructure the options, initialise the locals
Enter(sp, sv, opts, who) ==
    /\ pc = "idle"
    /\ startPos' = sp
    /\ startVel' = sv
    /\ options' = opts
    /\ trajectory' = << >>
    /\ pos' = sp
    /\ vel' = sv
    /\ reachedGoal' = FALSE
    /\ outOfBounds' = FALSE
    /\ i' = 0
    /\ tooClose' = FALSE
    /\ pc' = "loop"
    /\ caller' = who
    /\ result' = Null

\* a faulty iteration, whose goal test does not break: the bounds test follows
IterGoalWithoutBreak ==
    /\ pc = "loop"
    /\ LoopContinues(i, options.maxSteps)
    /\ IterationBranch(pos, options) = "goal"
    /\ trajectory' = Append(trajectory, RecordPoint(masses, pos))
    /\ reachedGoal' = TRUE
    /\ outOfBounds' = OutsideBounds(pos, options.bounds)
    /\ pc' = "return"
    /\ UNCHANGED gameVars
    /\ UNCHANGED shotVars
    /\ UNCHANGED genVars
    /\ UNCHANGED << masses, startPos, startVel, options, pos, vel, i,
                    tooClose, caller, result, level, angle, power, vpc, valid, calls,
                    earlier >>

\* one iteration that ends in the goal test's break
IterGoal ==
    /\ pc = "loop"
    /\ LoopContinues(i, options.maxSteps)
    /\ IterationBranch(pos, options) = "goal"
    /\ trajectory' = Append(trajectory, RecordPoint(masses, pos))
    /\ reachedGoal' = TRUE
    /\ pc' = "return"
    /\ UNCHANGED gameVars
    /\ UNCHANGED shotVars
    /\ UNCHANGED genVars
    /\ UNCHANGED << masses, startPos, startVel, options, pos, vel, outOfBounds, i,
                    tooClose, caller, result, level, angle, power, vpc, valid, calls,
                    earlier >>

\* one iteration that ends in the bounds test's break
IterOutOfBounds ==
    /\ pc = "loop"
    /\ LoopContinues(i, options.maxSteps)
    /\ IterationBranch(pos, options) = "bounds"
    /\ trajectory' = Append(trajectory, RecordPoint(masses, pos))
    /\ outOfBounds' = TRUE
    /\ pc' = "return"
    /\ UNCHANGED gameVars
    /\ UNCHANGED shotVars
    /\ UNCHANGED genVars
    /\ UNCHANGED << masses, startPos, startVel, options, pos, vel, reachedGoal, i,
                    tooClose, caller, result, level, angle, power, vpc, valid, calls,
                    earlier >>

\* pos = result.pos; vel = result.vel; the loop over the masses; if (tooClose) break
StepTo(r) ==
    /\ pos' = r.pos
    /\ vel' = r.vel
    /\ tooClose' = TooClose(masses, r.pos)
    /\ IF TooClose(masses, r.pos)
       THEN pc' = "return" /\ i' = i
       ELSE pc' = "loop" /\ i' = i + 1

\* a second integration of the state r
StepAgain(r) == integrateRK4(masses, r.pos, r.vel, options.dt)

\* a faulty iteration, which integrates twice for one recorded point
IterStepTwice ==
    /\ pc = "loop"
    /\ LoopContinues(i, options.maxSteps)
    /\ IterationBranch(pos, options) = "step"
    /\ trajectory' = Append(trajectory, RecordPoint(masses, pos))
    /\ \E r \in { StepAgain(integrateRK4(masses, pos, vel, options.dt)) } : StepTo(r)
    /\ UNCHANGED gameVars
    /\ UNCHANGED shotVars
    /\ UNCHANGED genVars
    /\ UNCHANGED << masses, startPos, startVel, options, reachedGoal, outOfBounds,
                    caller, result, level, angle, power, vpc, valid, calls, earlier >>

\* a faulty iteration, in which pos is the caller's startPos object
IterStepThroughAlias ==
    /\ pc = "loop"
    /\ LoopContinues(i, options.maxSteps)
    /\ IterationBranch(pos, options) = "step"
    /\ trajectory' = Append(trajectory, RecordPoint(masses, pos))
    /\ \E r \in { integrateRK4(masses, pos, vel, options.dt) } : StepTo(r)
    /\ startPos' = pos'
    /\ UNCHANGED gameVars
    /\ UNCHANGED shotVars
    /\ UNCHANGED genVars
    /\ UNCHANGED << masses, startVel, options, reachedGoal, outOfBounds,
                    caller, result, level, angle, power, vpc, valid, calls, earlier >>

\* a faulty iteration, which applies the goal test to the stepped position too
IterStepThenGoalTest ==
    /\ pc = "loop"
    /\ LoopContinues(i, options.maxSteps)
    /\ IterationBranch(pos, options) = "step"
    /\ trajectory' = Append(trajectory, RecordPoint(masses, pos))
    /\ \E r \in { integrateRK4(masses, pos, vel, options.dt) } :
          /\ StepTo(r)
          /\ reachedGoal' = GoalTest(r.pos, options.goalPos, options.goalRadius)
    /\ UNCHANGED gameVars
    /\ UNCHANGED shotVars
    /\ UNCHANGED genVars
    /\ UNCHANGED << masses, startPos, startVel, options, outOfBounds,
                    caller, result, level, angle, power, vpc, valid, calls, earlier >>

\* one iteration that integrates, then tests the proximity of the masses
IterStep ==
    /\ pc = "loop"
    /\ LoopContinues(i, options.maxSteps)
    /\ IterationBranch(pos, options) = "step"
    /\ trajectory' = Append(trajectory, RecordPoint(masses, pos))
    /\ \E r \in { integrateRK4(masses, pos, vel, options.dt) } : StepTo(r)
    /\ UNCHANGED gameVars
    /\ UNCHANGED shotVars
    /\ UNCHANGED genVars
    /\ UNCHANGED << masses, startPos, startVel, options, reachedGoal, outOfBounds,
                    caller, result, level, angle, power, vpc, valid, calls, earlier >>

\* the for loop's condition fails
LoopExit ==
    /\ pc = "loop"
    /\ ~ LoopContinues(i, options.maxSteps)
    /\ pc' = "return"
    /\ UNCHANGED gameVars
    /\ UNCHANGED shotVars
    /\ UNCHANGED genVars
    /\ UNCHANGED << masses, startPos, startVel, options, trajectory, pos, vel,
                    reachedGoal, outOfBounds, i, tooClose, caller, result, level,
                    angle, power, vpc, valid, calls, earlier >>

\* a faulty return, whose finalPos is the last recorded position
ReturnLastRecorded ==
    /\ pc = "return"
    /\ result' = Some([points |-> trajectory, reachedGoal |-> reachedGoal,
                       outOfBounds |-> outOfBounds,
                       finalPos |-> IF trajectory = << >> THEN pos
                                    ELSE vec2(trajectory[Len(trajectory)].x,
                                              trajectory[Len(trajectory)].y)])
    /\ pc' = "done"
    /\ UNCHANGED gameVars
    /\ UNCHANGED shotVars
    /\ UNCHANGED genVars
    /\ UNCHANGED << masses, startPos, startVel, options, trajectory, pos, vel,
                    reachedGoal, outOfBounds, i, tooClose, caller, level, angle,
                    power, vpc, valid, calls, earlier >>

\* a return that reports a capture through the outOfBounds flag
ReturnCaptureAsOutOfBounds ==
    /\ pc = "return"
    /\ result' = Some([points |-> trajectory, reachedGoal |-> reachedGoal,
                       outOfBounds |-> (outOfBounds \/ tooClose), finalPos |-> pos])
    /\ pc' = "done"
    /\ UNCHANGED gameVars
    /\ UNCHANGED shotVars
    /\ UNCHANGED genVars
    /\ UNCHANGED << masses, startPos, startVel, options, trajectory, pos, vel,
                    reachedGoal, outOfBounds, i, tooClose, caller, level, angle,
                    power, vpc, valid, calls, earlier >>

\* return { points, reachedGoal, outOfBounds, finalPos }
Return ==
    /\ pc = "return"
    /\ result' = Some([points |-> trajectory, reachedGoal |-> reachedGoal,
                       outOfBounds |-> outOfBounds, finalPos |-> pos])
    /\ pc' = "done"
    /\ UNCHANGED gameVars
    /\ UNCHANGED shotVars
    /\ UNCHANGED genVars
    /\ UNCHANGED << masses, startPos, startVel, options, trajectory, pos, vel,
                    reachedGoal, outOfBounds, i, tooClose, caller, level, angle,
                    power, vpc, valid, calls, earlier >>

\* ------------------------------------------------------------------ callers of physics.js

\* Math.cos(angle * Math.PI / 180) for the angles the callers use (multiples of 15)
CosTable == << 1000, 966, 866, 707, 500, 259, 0, -259, -500, -707, -866, -966,
               -1000, -966, -866, -707, -500, -259, 0, 259, 500, 707, 866, 966 >>

CosDeg(a) == CosTable[(a \div 15) + 1]

\* Math.sin(angle * Math.PI / 180)
SinDeg(a) == CosDeg((a + 270) % 360)

\* history: the kept call, marked when another operation follows it
NoteOther(e) == IF IsSet(e) THEN Some([Val(e) EXCEPT !.between = TRUE]) ELSE e

\* history: the call about to be made repeats the kept one
RepeatsKept(inp) ==
    /\ IsSet(earlier)
    /\ Val(earlier).masses = masses
    /\ Val(earlier).startPos = inp.startPos
    /\ Val(earlier).startVel = inp.startVel
    /\ Val(earlier).options = inp.options

\* setMasses(newMasses), called between two simulations
SetMasses(choices) ==
    /\ pc = "idle"
    /\ vpc = "idle"
    /\ \E ms \in choices : masses' = ms
    /\ earlier' = NoteOther(earlier)
    /\ UNCHANGED gameVars
    /\ UNCHANGED shotVars
    /\ UNCHANGED genVars
    /\ UNCHANGED << startPos, startVel, options, trajectory, pos, vel, reachedGoal,
                    outOfBounds, i, tooClose, pc, caller, result, level, angle, power,
                    vpc, valid, calls >>

\* a caller of computeTrajectory(startPos, startVel, options)
ClientCall(inputs) ==
    /\ vpc = "idle"
    /\ \E inp \in inputs :
          /\ Enter(inp.startPos, inp.startVel, inp.options, "client")
          /\ earlier' = IF RepeatsKept(inp) THEN earlier ELSE NoteOther(earlier)
    /\ UNCHANGED gameVars
    /\ UNCHANGED shotVars
    /\ UNCHANGED genVars
    /\ UNCHANGED << masses, level, angle, power, vpc, valid, calls >>

\* the caller takes the returned object
ClientReceive ==
    /\ pc = "done"
    /\ caller = "client"
    /\ pc' = "idle"
    /\ UNCHANGED gameVars
    /\ UNCHANGED shotVars
    /\ UNCHANGED genVars
    /\ UNCHANGED << masses, startPos, startVel, options, trajectory, pos, vel,
                    reachedGoal, outOfBounds, i, tooClose, caller, result, level,
                    angle, power, vpc, valid, calls, earlier >>

\* the caller takes the returned object and keeps it, with the inputs it came from
ClientKeep ==
    /\ pc = "done"
    /\ caller = "client"
    /\ earlier = Null
    /\ pc' = "idle"
    /\ earlier' = Some([masses |-> masses, startPos |-> startPos, startVel |-> startVel,
                        options |-> options, result |-> Val(result),
                        between |-> FALSE])
    /\ UNCHANGED gameVars
    /\ UNCHANGED shotVars
    /\ UNCHANGED genVars
    /\ UNCHANGED << masses, startPos, startVel, options, trajectory, pos, vel,
                    reachedGoal, outOfBounds, i, tooClose, caller, result, level,
                    angle, power, vpc, valid, calls >>

\* ------------------------------------------------------------------ generator.js: validateLevel

ValidateMaxSteps == 2000
ValidateDt == 10
AngleStep == 15
AngleEnd == 360
PowerStart == 1000
PowerStep == 500
PowerEnd == 5000

\* angle < 360
AngleInRange(a) == a < AngleEnd

\* a faulty inner loop condition, which leaves out the power 5
PowerInRangeExclusive(p) == p < PowerEnd

\* power <= 5
PowerInRange(p) == p <= PowerEnd

\* function entry: setMasses(level.masses), then the loops' initialisation
ValidateBegin(lv) ==
    /\ vpc = "idle"
    /\ pc = "idle"
    /\ level' = Some(lv)
    /\ masses' = lv.masses
    /\ angle' = 0
    /\ power' = PowerStart
    /\ vpc' = "loop"
    /\ valid' = FALSE
    /\ calls' = << >>
    /\ earlier' = NoteOther(earlier)
    /\ UNCHANGED << startPos, startVel, options, trajectory, pos, vel, reachedGoal,
                    outOfBounds, i, tooClose, pc, caller, result >>

\* validateLevel(level), called on one of the given levels
ValidateEnter(levels) ==
    /\ handler = "none"
    /\ \E lv \in levels : ValidateBegin(lv)
    /\ UNCHANGED gameVars
    /\ UNCHANGED shotVars
    /\ UNCHANGED genVars

\* the body of the inner loop up to the call of computeTrajectory
ValidateCall ==
    /\ vpc = "loop"
    /\ AngleInRange(angle)
    /\ PowerInRange(power)
    /\ LET v  == [x |-> Mul(CosDeg(angle), power), y |-> Mul(SinDeg(angle), power)]
           lv == Val(level)
       IN  Enter(lv.startPos, v,
                 [maxSteps |-> ValidateMaxSteps, dt |-> ValidateDt, bounds |-> lv.bounds,
                  goalPos |-> Some(lv.goalPos), goalRadius |-> lv.goalRadius],
                 "validateLevel")
    /\ vpc' = "wait"
    /\ UNCHANGED gameVars
    /\ UNCHANGED shotVars
    /\ UNCHANGED genVars
    /\ UNCHANGED << masses, level, angle, power, valid, calls, earlier >>

\* if (result.reachedGoal) return true; otherwise power += 0.5
ValidateCheck ==
    /\ vpc = "wait"
    /\ pc = "done"
    /\ caller = "validateLevel"
    /\ pc' = "idle"
    /\ calls' = Append(calls, [angle |-> angle, power |-> power, masses |-> masses,
                               startPos |-> startPos, startVel |-> startVel,
                               options |-> options,
                               reachedGoal |-> Val(result).reachedGoal])
    /\ IF Val(result).reachedGoal
       THEN vpc' = "done" /\ valid' = TRUE /\ power' = power
       ELSE vpc' = "loop" /\ valid' = valid /\ power' = power + PowerStep
    /\ UNCHANGED gameVars
    /\ UNCHANGED shotVars
    /\ UNCHANGED genVars
    /\ UNCHANGED << masses, startPos, startVel, options, trajectory, pos, vel,
                    reachedGoal, outOfBounds, i, tooClose, caller, result, level,
                    angle, earlier >>

\* the inner loop's condition fails: angle += 15, power = 1
ValidateNextAngle ==
    /\ vpc = "loop"
    /\ AngleInRange(angle)
    /\ ~ PowerInRange(power)
    /\ angle' = angle + AngleStep
    /\ power' = PowerStart
    /\ UNCHANGED gameVars
    /\ UNCHANGED shotVars
    /\ UNCHANGED genVars
    /\ UNCHANGED << masses, startPos, startVel, options, trajectory, pos, vel,
                    reachedGoal, outOfBounds, i, tooClose, pc, caller, result, level,
                    vpc, valid, calls, earlier >>

\* the outer loop's condition fails: return false
ValidateFail ==
    /\ vpc = "loop"
    /\ ~ AngleInRange(angle)
    /\ valid' = FALSE
    /\ vpc' = "done"
    /\ UNCHANGED gameVars
    /\ UNCHANGED shotVars
    /\ UNCHANGED genVars
    /\ UNCHANGED << masses, startPos, startVel, options, trajectory, pos, vel,
                    reachedGoal, outOfBounds, i, tooClose, pc, caller, result, level,
                    angle, power, calls, earlier >>

\* the activation of validateLevel is gone
ValidateEnd ==
    /\ vpc = "done"
    /\ vpc' = "idle"
    /\ level' = Null
    /\ angle' = 0
    /\ power' = PowerStart
    /\ valid' = FALSE
    /\ calls' = << >>
    /\ UNCHANGED << masses, startPos, startVel, options, trajectory, pos, vel,
                    reachedGoal, outOfBounds, i, tooClose, pc, caller, result, earlier >>

\* the caller of validateLevel takes the returned boolean
ValidateReceive ==
    /\ handler = "none"
    /\ ValidateEnd
    /\ UNCHANGED gameVars
    /\ UNCHANGED shotVars
    /\ UNCHANGED genVars

\* ------------------------------------------------------------------ inputs

\* the largest maxSteps a client passes
MaxStepsBound == 3

MassAtOrigin == [x |-> 0, y |-> 0, strength |-> 1500]
MassFar == [x |-> 3000, y |-> -3000, strength |-> 1000]

MassChoices == { << >>, << MassAtOrigin >>, << MassFar, MassAtOrigin >> }

\* level 1 (level.js): one mass, start and goal on either side of it
Level1Masses == << MassAtOrigin >>

StartPositions == { vec2(-330, 0), vec2(4990, 0), vec2(5200, 0) }
StartVelocities == { vec2(2000, 0), vec2(0, 0) }
DtChoices == { 10, 20 }
GoalChoices == { Null, Some(vec2(5200, 0)), Some(vec2(-100, 0)) }
GoalRadiusChoices == { 0, 210 }

ClientInputs ==
    { [startPos |-> sp, startVel |-> sv,
       options |-> [maxSteps |-> n, dt |-> d, bounds |-> DefaultBounds,
                    goalPos |-> g, goalRadius |-> r]] :
        sp \in StartPositions, sv \in StartVelocities, n \in 0..MaxStepsBound,
        d \in DtChoices, g \in GoalChoices, r \in GoalRadiusChoices }

\* the inputs of the calls that are made twice
RepeatedInputs ==
    { [startPos |-> sp, startVel |-> sv,
       options |-> [maxSteps |-> MaxStepsBound, dt |-> 20, bounds |-> DefaultBounds,
                    goalPos |-> g, goalRadius |-> 210]] :
        sp \in { vec2(-330, 0), vec2(4990, 0) }, sv \in StartVelocities,
        g \in { Null, Some(vec2(5200, 0)) } }

TinyBounds == [minX |-> -60, maxX |-> 60, minY |-> -60, maxY |-> 60]

\* no launch of the grid reaches the goal; some launches are captured
LevelUnsolvable ==
    [startPos |-> vec2(0, 0), goalPos |-> vec2(3000, 0), goalRadius |-> 400,
     masses |-> << [x |-> 340, y |-> 0, strength |-> 1500] >>, bounds |-> TinyBounds]

\* the goal is reached by a launch in the middle of the grid
LevelSolvable ==
    [startPos |-> vec2(0, 0), goalPos |-> vec2(0, 55), goalRadius |-> 10,
     masses |-> << MassFar, [x |-> -400, y |-> 0, strength |-> 1200] >>,
     bounds |-> TinyBounds]

\* the start is inside the goal disc
LevelAtGoal ==
    [startPos |-> vec2(0, 0), goalPos |-> vec2(100, 0), goalRadius |-> 400,
     masses |-> << >>, bounds |-> TinyBounds]

ValidateLevels == { LevelUnsolvable, LevelSolvable, LevelAtGoal }

\* the start is outside the bounds: every launch of the grid ends at once
LevelOffField ==
    [startPos |-> vec2(5200, 0), goalPos |-> vec2(3000, 0), goalRadius |-> 400,
     masses |-> << MassFar >>, bounds |-> DefaultBounds]

\* ------------------------------------------------------------------ generator.js: SeededRandom

\* 0x7fffffff
SeedMask == 2147483647

\* the multiplier 1103515245 = MultiplierHigh * 2^16 + MultiplierLow, and the
\* increment, of SeededRandom.next
MultiplierHigh == 16838
MultiplierLow == 20077
SeedIncrement == 12345

\* a natural number below 2^62, as high * 2^31 + low with low < 2^31
Wide(high, low) == [high |-> high, low |-> low]

\* w + n for a natural number n below 2^31
WideAdd(w, n) ==
    IF w.low > SeedMask - n
    THEN Wide(w.high + 1, w.low - (SeedMask - n) - 1)
    ELSE Wide(w.high, w.low + n)

\* seed * 1103515245 as the exact integer, for 0 <= seed < 2^31
WideProduct(seed) ==
    LET a1  == seed \div 65536
        a0  == seed % 65536
        mid == a1 * MultiplierLow + a0 * MultiplierHigh
    IN  WideAdd(Wide(2 * a1 * MultiplierHigh + mid \div 32768, (mid % 32768) * 65536),
                a0 * MultiplierLow)

\* the number of low bits a double cannot hold of w: a double has 53 bits
LostBits(w) == Cardinality({ k \in 22..30 : w.high >= 2 ^ k })

\* w as a double: rounded to the nearest multiple of 2^LostBits, ties to even
ToDouble(w) ==
    LET s    == LostBits(w)
        unit == 2 ^ s
        r    == w.low % unit
        down == Wide(w.high, w.low - r)
        up   == 2 * r > unit \/ (2 * r = unit /\ (w.low \div unit) % 2 = 1)
    IN  IF up THEN WideAdd(down, unit) ELSE down

\* SeededRandom.next: the new seed.  The product and the sum are doubles, and
\* & 0x7fffffff keeps the low 31 bits of the integer the sum is
NextSeed(seed) ==
    Strict(seed, LAMBDA s :
      Strict(ToDouble(WideProduct(s)), LAMBDA product :
        Strict(WideAdd(product, SeedIncrement), LAMBDA sum : ToDouble(sum).low)))

\* SeededRandom.next: the returned real, this.seed / 0x7fffffff
SeedFraction(seed) ==
    LET q == seed \div 2147483
        r == seed % 2147483
    IN  IF q >= Scale THEN Scale ELSE q + (IF 2 * r >= 2147483 THEN 1 ELSE 0)

\* SeededRandom.range(min, max), for the seed next() has left
SeededRange(seed, min, max) == min + Mul(SeedFraction(seed), max - min)

\* ------------------------------------------------------------------ generator.js: generation

\* generationParams, as reals (levelId is an integer)
BaseMassCount == 1000
MassCountGrowth == 300
MaxMasses == 6
BaseStrength == 1000
StrengthGrowth == 100
MaxStrength == 3500
BaseDistance == 6000
DistanceGrowth == 200
MaxDistance == 8000
Margin == 800
GenerationBounds == DefaultBounds

\* generateMasses: the positions tried for one mass, and the distances kept
\* to the start and the goal, and to the masses placed before
PlacementTries == 50
KeepFromEnds == 1000
KeepFromMasses == 1500

\* Math.PI
MathPi == 3142

\* Math.cos(x) for 0 <= x <= Math.PI / 2, by its series up to x^8
CosSeries(x) ==
    LET x2 == Mul(x, x)
        x4 == Mul(x2, x2)
    IN  Scale - DivInt(x2, 2) + DivInt(x4, 24) - DivInt(Mul(x4, x2), 720)
              + DivInt(Mul(x4, x4), 40320)

\* Math.cos(a) for 0 <= a <= Math.PI * 2
MathCos(a) ==
    LET b == IF a > MathPi THEN MathPi * 2 - a ELSE a
    IN  IF b > MathPi \div 2 THEN 0 - CosSeries(MathPi - b) ELSE CosSeries(b)

\* Math.sin(a) for 0 <= a <= Math.PI * 2
MathSin(a) == MathCos(Abs(a - MathPi \div 2))

Min(a, b) == IF a < b THEN a ELSE b
Max(a, b) == IF a > b THEN a ELSE b

\* generateStartAndGoal: clamp
Clamp(p) ==
    [x |-> Max(GenerationBounds.minX + Margin, Min(GenerationBounds.maxX - Margin, p.x)),
     y |-> Max(GenerationBounds.minY + Margin, Min(GenerationBounds.maxY - Margin, p.y))]

\* generateStartAndGoal, for the seeds s1, s2, s3 its three draws leave
StartAndGoalAt(levelId, s1, s2, s3) ==
    LET distance == Min(BaseDistance + DistanceGrowth * levelId, MaxDistance)
        a        == SeededRange(s1, 0, MathPi * 2)
        halfDist == DivInt(distance, 2)
        centerX  == SeededRange(s2, 0 - Scale, Scale)
        centerY  == SeededRange(s3, 0 - Scale, Scale)
        cx       == Mul(MathCos(a), halfDist)
        cy       == Mul(MathSin(a), halfDist)
    IN  [startPos |-> Clamp(vec2(centerX - cx, centerY - cy)),
         goalPos  |-> Clamp(vec2(centerX + cx, centerY + cy)),
         seed     |-> s3]

\* generateStartAndGoal(rng, levelId, params) for the generator in state seed:
\* the returned positions, and the state it leaves the generator in
generateStartAndGoal(seed, levelId) ==
    Strict(NextSeed(seed), LAMBDA s1 :
      Strict(NextSeed(s1), LAMBDA s2 :
        Strict(NextSeed(s2), LAMBDA s3 : StartAndGoalAt(levelId, s1, s2, s3))))

\* generateMasses: massCount
MassCountFor(levelId) ==
    Min((BaseMassCount + MassCountGrowth * levelId) \div Scale, MaxMasses)

\* generateMasses: avgStrength
AvgStrengthFor(levelId) == Min(BaseStrength + StrengthGrowth * levelId, MaxStrength)

\* generateMasses: the position a pass of the while loop tries, for the seeds
\* s1 and s2 its two draws leave
TriedPosition(sp, gp, s1, s2) ==
    LET dx   == gp.x - sp.x
        dy   == gp.y - sp.y
        dist == Hypot(dx, dy)
        dirX == Div(dx, dist)
        dirY == Div(dy, dist)
        t    == SeededRange(s1, 200, 800)
        perpOffset == SeededRange(s2, 0 - 2000, 2000)
    IN  vec2(sp.x + Mul(Mul(dirX, dist), t) - Mul(dirY, perpOffset),
             sp.y + Mul(Mul(dirY, dist), t) + Mul(dirX, perpOffset))

\* generateMasses: the pass of the while loop that tries the position at
\* (x, y), for the seeds s2 and s3 the second and a third draw leave
PlaceAt(levelId, sp, gp, placed, x, y, s2, s3) ==
    LET distToStart == Hypot(x - sp.x, y - sp.y)
        distToGoal  == Hypot(x - gp.x, y - gp.y)
        tooNear == \E k \in 1..Len(placed) :
                      Hypot(x - placed[k].x, y - placed[k].y) < KeepFromMasses
    IN  IF distToStart > KeepFromEnds /\ distToGoal > KeepFromEnds /\ ~ tooNear
        THEN [mass |-> Some([x |-> x, y |-> y,
                             strength |-> Mul(AvgStrengthFor(levelId),
                                              SeededRange(s3, 700, 1300))]),
              seed |-> s3]
        ELSE [mass |-> Null, seed |-> s2]

\* generateMasses: one pass of the body of while (attempts < 50), for the
\* generator in state seed and the masses placed so far: the mass built, or
\* Null when the position is refused, and the state the generator is left in
PlaceOnce(seed, levelId, sp, gp, placed) ==
    Strict(NextSeed(seed), LAMBDA s1 :
      Strict(NextSeed(s1), LAMBDA s2 :
        Strict(TriedPosition(sp, gp, s1, s2), LAMBDA at :
          Strict(NextSeed(s2), LAMBDA s3 :
            PlaceAt(levelId, sp, gp, placed, at.x, at.y, s2, s3)))))

\* ------------------------------------------------------------------ main.js, generator.js

\* predefinedLevels.length
PredefinedCount == 5

\* generateLevel: maxAttempts
MaxAttempts == 20

\* generateLevel: the default seed is levelId * 12345
DefaultSeedFactor == 12345

\* generationParams: baseGoalRadius, goalRadiusShrink, minGoalRadius
BaseGoalRadius == 500
GoalRadiusShrink == 20
MinGoalRadius == 250

\* Game: the aim after construction, and the animation speed
InitialAimAngle == 45
InitialAimPower == 2000
AnimationSpeed == 2

\* level 1 of level.js, with the default bounds of Level
Level1 ==
    [startPos |-> vec2(-3500, 0), goalPos |-> vec2(3500, 0), goalRadius |-> 500,
     masses |-> Level1Masses, bounds |-> DefaultBounds]

\* getLevelById, for the predefined level of the model
getLevelById(id) == Level1

\* the level ids loaded: level 1, and two generated levels in a row
PredefinedIds == { 1 }
GeneratedIds == { 6, 7 }

\* the inputs of the direct calls of generateLevel(levelId, seed): a level of
\* one mass and a level of two (the second mass is placed at the second try),
\* whose first candidate is accepted at the first launch validateLevel tries
GenerateInputs ==
    { [levelId |-> 3, seed |-> Some(1082)], [levelId |-> 6, seed |-> Some(167696)] }

\* the arguments generateLevel(4, 357327) calls generateMasses with: the first
\* mass lies half way between start and goal, and the 50 positions tried for
\* the second one are all too close to it
CrowdedInputs ==
    { [levelId |-> 4, startPos |-> sg.startPos, goalPos |-> sg.goalPos, seed |-> sg.seed] :
        sg \in { generateStartAndGoal(357327, 4) } }

\* history: the keys of these inputs
GenerateKeys ==
    { [levelId |-> inp.levelId,
       actualSeed |-> (IF IsSet(inp.seed) THEN Val(inp.seed)
                       ELSE inp.levelId * DefaultSeedFactor)] : inp \in GenerateInputs }

\* the aim the constructor sets
InitialAim == [angle |-> InitialAimAngle, power |-> InitialAimPower]

\* a slow launch across the axis, which on level 1 is still in flight after
\* maxSteps steps
SlowAim == [angle |-> 90, power |-> 700]

\* the aims the sliders are set to: the initial aim and, on a predefined
\* level before the first shot, the slow one
AimChoices(levelId, shots) ==
    IF levelId <= PredefinedCount /\ shots = 0
    THEN { InitialAim, SlowAim }
    ELSE { InitialAim }

\* generateLevel: goalRadius
GoalRadiusFor(levelId) ==
    IF BaseGoalRadius - GoalRadiusShrink * levelId > MinGoalRadius
    THEN BaseGoalRadius - GoalRadiusShrink * levelId
    ELSE MinGoalRadius

\* generateLevel: the level built when every candidate was rejected
FallbackLevel(levelId) ==
    [startPos |-> vec2(-3000, 0), goalPos |-> vec2(3000, 0),
     goalRadius |-> GoalRadiusFor(levelId),
     masses |-> << [x |-> 0, y |-> 0, strength |-> 1500] >>, bounds |-> DefaultBounds]

\* generateLevel: the candidates generateStartAndGoal and generateMasses build
\* from the seeded generator, which are a function of level id and attempt;
\* levels whose 216 simulations are short stand for them.  Level 6 gets a
\* playable candidate at the first or at the second attempt, level 7 never.
CandidatesOf(levelId, tries) ==
    IF levelId = 6
    THEN IF tries = 0 THEN { LevelOffField, LevelAtGoal } ELSE { LevelAtGoal }
    ELSE { LevelOffField }

\* the state the constructor of Game sets before it calls loadLevel(1); the
\* constructor of Projectile has run reset()
GameConstructed ==
    /\ phase = "menu"
    /\ currentLevelId = 1
    /\ currentLevel = Null
    /\ aimAngle = InitialAimAngle
    /\ aimPower = InitialAimPower
    /\ previewResult = Null
    /\ flightIndex = 0
    /\ handler = "none"
    /\ gpc = "idle"
    /\ genAttempts = 0
    /\ candidate = Null
    /\ setCount = 0
    /\ projState = "idle"
    /\ projTrajectory = << >>
    /\ previewTrajectory = << >>
    /\ attempts = 0
    /\ totalShots = 0
    /\ frames = 0

\* Game.updateAim in phase AIMING: setAimParameters, then computePreview up to
\* its call of computeTrajectory
PreviewCall(lv, a, p) ==
    Enter(lv.startPos,
          [x |-> Mul(CosDeg(a), p), y |-> Mul(SinDeg(a), p)],
          [maxSteps |-> ValidateMaxSteps, dt |-> ValidateDt, bounds |-> lv.bounds,
           goalPos |-> Some(lv.goalPos), goalRadius |-> lv.goalRadius],
          "preview")

\* Projectile.reset, followed by the first lines of Game.updateAim in phase
\* AIMING: the state is IDLE, then AIMING; previewResult is not reset
ResetThenAim ==
    /\ projTrajectory' = << >>
    /\ flightIndex' = 0
    /\ previewTrajectory' = << >>
    /\ projState' = "aiming"
    /\ frames' = 0
    /\ UNCHANGED previewResult

\* a faulty load, which leaves out setMasses
LoadKeepingMasses(id, lv, n) ==
    /\ currentLevelId' = id
    /\ currentLevel' = Some(lv)
    /\ masses' = masses
    /\ setCount' = n
    /\ ResetThenAim
    /\ phase' = "aiming"
    /\ attempts' = 0
    /\ handler' = "loadLevel"
    /\ PreviewCall(lv, aimAngle, aimPower)
    /\ earlier' = NoteOther(earlier)
    /\ UNCHANGED << aimAngle, aimPower, totalShots, level, angle, power, vpc, valid,
                    calls >>

\* Game.loadLevel from setMasses(this.currentLevel.masses) on, for the level
\* lv of id, after n earlier setMasses calls of this load
LoadFrom(id, lv, n) ==
    /\ currentLevelId' = id
    /\ currentLevel' = Some(lv)
    /\ masses' = lv.masses
    /\ setCount' = n + 1
    /\ ResetThenAim
    /\ phase' = "aiming"
    /\ attempts' = 0
    /\ handler' = "loadLevel"
    /\ PreviewCall(lv, aimAngle, aimPower)
    /\ earlier' = NoteOther(earlier)
    /\ UNCHANGED << aimAngle, aimPower, totalShots, level, angle, power, vpc, valid,
                    calls >>

\* no handler and no simulation is running: the page waits for an event
Waiting == handler = "none" /\ pc = "idle" /\ vpc = "idle" /\ gpc = "idle"

\* the player changes level with the sliders where the constructor put them
\* (this keeps the states a load starts from few)
FreshAim == aimAngle = InitialAimAngle /\ aimPower = InitialAimPower

\* Game.loadLevel(levelId) for a predefined level; the first load is the
\* constructor's loadLevel(1)
LoadPredefined(ids) ==
    /\ Waiting
    /\ FreshAim
    /\ \E id \in ids :
          /\ id <= PredefinedCount
          /\ LoadFrom(id, getLevelById(id), 0)
    /\ UNCHANGED << gpc, genAttempts, candidate >>
    /\ UNCHANGED genVars

\* generateLevel: the step the seed advances by after a rejected candidate
ReseedStep == 1000

\* generateLevel is not running
GeneratorIdle ==
    /\ genLevelId = 0
    /\ actualSeed = 0
    /\ rngSeed = 0
    /\ startAndGoal = Null
    /\ genMasses = << >>
    /\ massIndex = 0
    /\ placeAttempts = 0

\* generateLevel(levelId, seed = null) up to its loop: actualSeed and
\* new SeededRandom(actualSeed)
GeneratorEntry(id, seed) ==
    /\ genLevelId' = id
    /\ actualSeed' = (IF IsSet(seed) THEN Val(seed) ELSE id * DefaultSeedFactor)
    /\ rngSeed' = actualSeed'
    /\ UNCHANGED << startAndGoal, genMasses, massIndex, placeAttempts >>

\* generateLevel returns: its locals are gone
GeneratorLeave ==
    /\ genLevelId' = 0
    /\ actualSeed' = 0
    /\ rngSeed' = 0
    /\ startAndGoal' = Null
    /\ genMasses' = << >>
    /\ massIndex' = 0
    /\ placeAttempts' = 0

\* Game.loadLevel(levelId) for a generated level, up to the loop of generateLevel
GenerateBegin(id) ==
    /\ Waiting
    /\ phase # "menu"
    /\ id > PredefinedCount
    /\ currentLevelId' = id
    /\ setCount' = 0
    /\ handler' = "loadLevel"
    /\ gpc' = "loop"
    /\ genAttempts' = 0
    /\ candidate' = Null
    /\ GeneratorEntry(id, Null)
    /\ earlier' = NoteOther(earlier)
    /\ UNCHANGED shotVars
    /\ UNCHANGED << masses, startPos, startVel, options, trajectory, pos, vel,
                    reachedGoal, outOfBounds, i, tooClose, pc, caller, result, level,
                    angle, power, vpc, valid, calls, phase, currentLevel, aimAngle,
                    aimPower, previewResult, flightIndex, generated, placedMasses >>

\* the level select, used while aiming and before the first shot (this keeps
\* the generations few)
LoadGenerated(ids) ==
    /\ phase = "aiming"
    /\ FreshAim
    /\ totalShots = 0
    /\ \E id \in ids : GenerateBegin(id)

\* Game.nextLevel; its button is enabled in phase SUCCESS only; the player
\* goes on after a first shot that succeeded
NextLevel(ids) ==
    /\ phase = "success"
    /\ FreshAim
    /\ attempts = 1
    /\ currentLevelId + 1 \in ids
    /\ GenerateBegin(currentLevelId + 1)

\* generateLevel: the loop body up to validateLevel(candidateLevel), which
\* begins with setMasses(level.masses)
GenerateCandidate ==
    /\ gpc = "loop"
    /\ handler = "loadLevel"
    /\ genAttempts < MaxAttempts
    /\ \E c \in CandidatesOf(genLevelId, genAttempts) :
          /\ candidate' = Some(c)
          /\ ValidateBegin(c)
    /\ setCount' = setCount + 1
    /\ gpc' = "validate"
    /\ UNCHANGED shotVars
    /\ UNCHANGED genVars
    /\ UNCHANGED << phase, currentLevelId, currentLevel, aimAngle, aimPower,
                    previewResult, flightIndex, handler, genAttempts >>

\* if (validateLevel(candidateLevel)) { level = candidateLevel; break; }
GenerateAccept ==
    /\ gpc = "validate"
    /\ valid
    /\ ValidateEnd
    /\ gpc' = "return"
    /\ UNCHANGED shotVars
    /\ UNCHANGED genVars
    /\ UNCHANGED << phase, currentLevelId, currentLevel, aimAngle, aimPower,
                    previewResult, flightIndex, handler, genAttempts, candidate,
                    setCount >>

\* attempts++; rng.seed = actualSeed + attempts * 1000
GenerateReject ==
    /\ gpc = "validate"
    /\ ~ valid
    /\ ValidateEnd
    /\ gpc' = "loop"
    /\ genAttempts' = genAttempts + 1
    /\ rngSeed' = actualSeed + genAttempts' * ReseedStep
    /\ candidate' = Null
    /\ UNCHANGED shotVars
    /\ UNCHANGED << genLevelId, actualSeed, startAndGoal, genMasses, massIndex,
                    placeAttempts, generated, placedMasses >>
    /\ UNCHANGED << phase, currentLevelId, currentLevel, aimAngle, aimPower,
                    previewResult, flightIndex, handler, setCount >>

\* if (!level) { level = new Level({ ... }) }
GenerateFallback ==
    /\ gpc = "loop"
    /\ ~ (genAttempts < MaxAttempts)
    /\ candidate' = Some(FallbackLevel(genLevelId))
    /\ gpc' = "return"
    /\ UNCHANGED shotVars
    /\ UNCHANGED genVars
    /\ UNCHANGED << masses, startPos, startVel, options, trajectory, pos, vel,
                    reachedGoal, outOfBounds, i, tooClose, pc, caller, result, level,
                    angle, power, vpc, valid, calls, earlier, phase, currentLevelId,
                    currentLevel, aimAngle, aimPower, previewResult, flightIndex,
                    handler, genAttempts, setCount >>

\* generateLevel returns; Game.loadLevel goes on with the returned level
GenerateReturn ==
    /\ gpc = "return"
    /\ handler = "loadLevel"
    /\ LoadFrom(currentLevelId, Val(candidate), setCount)
    /\ gpc' = "idle"
    /\ candidate' = Null
    /\ genAttempts' = 0
    /\ GeneratorLeave
    /\ UNCHANGED << generated, placedMasses >>

\* history: the key under which a returned level is kept
GenerateKey(id, seed) == [levelId |-> id, actualSeed |-> seed]

\* the exported generateLevel(levelId, seed), called by another module with
\* one of the given inputs
GenerateLevelCall(inputs) ==
    /\ Waiting
    /\ \E inp \in inputs : GeneratorEntry(inp.levelId, inp.seed)
    /\ handler' = "generateLevel"
    /\ gpc' = "loop"
    /\ genAttempts' = 0
    /\ candidate' = Null
    /\ setCount' = 0
    /\ placedMasses' = Null
    /\ earlier' = NoteOther(earlier)
    /\ UNCHANGED shotVars
    /\ UNCHANGED << masses, startPos, startVel, options, trajectory, pos, vel,
                    reachedGoal, outOfBounds, i, tooClose, pc, caller, result, level,
                    angle, power, vpc, valid, calls, phase, currentLevelId,
                    currentLevel, aimAngle, aimPower, previewResult, flightIndex,
                    generated >>

\* generateLevel: the loop body up to the for loop of generateMasses
GenerateStartAndGoal ==
    /\ gpc = "loop"
    /\ handler = "generateLevel"
    /\ genAttempts < MaxAttempts
    /\ \E sg \in { generateStartAndGoal(rngSeed, genLevelId) } :
          /\ startAndGoal' = Some([startPos |-> sg.startPos, goalPos |-> sg.goalPos])
          /\ rngSeed' = sg.seed
    /\ genMasses' = << >>
    /\ massIndex' = 0
    /\ placeAttempts' = 0
    /\ gpc' = "masses"
    /\ UNCHANGED shotVars
    /\ UNCHANGED << masses, startPos, startVel, options, trajectory, pos, vel,
                    reachedGoal, outOfBounds, i, tooClose, pc, caller, result, level,
                    angle, power, vpc, valid, calls, earlier, phase, currentLevelId,
                    currentLevel, aimAngle, aimPower, previewResult, flightIndex,
                    handler, genAttempts, candidate, setCount, genLevelId,
                    actualSeed, generated, placedMasses >>

\* a faulty variant of PlaceMass: the while loop goes on whatever the number
\* of positions refused
PlaceMassWithoutLimit ==
    /\ gpc = "masses"
    /\ massIndex < MassCountFor(genLevelId)
    /\ \E r \in { PlaceOnce(rngSeed, genLevelId, Val(startAndGoal).startPos,
                            Val(startAndGoal).goalPos, genMasses) } :
          /\ rngSeed' = r.seed
          /\ IF IsSet(r.mass)
             THEN /\ genMasses' = Append(genMasses, Val(r.mass))
                  /\ massIndex' = massIndex + 1
                  /\ placeAttempts' = 0
             ELSE /\ placeAttempts' = placeAttempts + 1
                  /\ UNCHANGED << genMasses, massIndex >>
    /\ UNCHANGED shotVars
    /\ UNCHANGED << masses, startPos, startVel, options, trajectory, pos, vel,
                    reachedGoal, outOfBounds, i, tooClose, pc, caller, result, level,
                    angle, power, vpc, valid, calls, earlier, phase, currentLevelId,
                    currentLevel, aimAngle, aimPower, previewResult, flightIndex,
                    handler, gpc, genAttempts, candidate, setCount, genLevelId,
                    actualSeed, startAndGoal, generated, placedMasses >>

\* generateMasses: one pass of the body of while (attempts < 50); a mass that
\* was built is pushed, and the for loop goes on with the next one
PlaceMass ==
    /\ gpc = "masses"
    /\ massIndex < MassCountFor(genLevelId)
    /\ placeAttempts < PlacementTries
    /\ \E r \in { PlaceOnce(rngSeed, genLevelId, Val(startAndGoal).startPos,
                            Val(startAndGoal).goalPos, genMasses) } :
          /\ rngSeed' = r.seed
          /\ IF IsSet(r.mass)
             THEN /\ genMasses' = Append(genMasses, Val(r.mass))
                  /\ massIndex' = massIndex + 1
                  /\ placeAttempts' = 0
             ELSE /\ placeAttempts' = placeAttempts + 1
                  /\ UNCHANGED << genMasses, massIndex >>
    /\ UNCHANGED shotVars
    /\ UNCHANGED << masses, startPos, startVel, options, trajectory, pos, vel,
                    reachedGoal, outOfBounds, i, tooClose, pc, caller, result, level,
                    angle, power, vpc, valid, calls, earlier, phase, currentLevelId,
                    currentLevel, aimAngle, aimPower, previewResult, flightIndex,
                    handler, gpc, genAttempts, candidate, setCount, genLevelId,
                    actualSeed, startAndGoal, generated, placedMasses >>

\* generateMasses: the while loop ends with mass = null, nothing is pushed
OmitMass ==
    /\ gpc = "masses"
    /\ massIndex < MassCountFor(genLevelId)
    /\ ~ (placeAttempts < PlacementTries)
    /\ massIndex' = massIndex + 1
    /\ placeAttempts' = 0
    /\ UNCHANGED shotVars
    /\ UNCHANGED << masses, startPos, startVel, options, trajectory, pos, vel,
                    reachedGoal, outOfBounds, i, tooClose, pc, caller, result, level,
                    angle, power, vpc, valid, calls, earlier, phase, currentLevelId,
                    currentLevel, aimAngle, aimPower, previewResult, flightIndex,
                    handler, gpc, genAttempts, candidate, setCount, genLevelId,
                    actualSeed, rngSeed, startAndGoal, genMasses, generated, placedMasses >>

\* a faulty variant of GenerateValidate: the candidate is built on the mass
\* collection that is active, the placed masses are added to it
GenerateValidateOnActiveMasses ==
    /\ gpc = "masses"
    /\ handler = "generateLevel"
    /\ ~ (massIndex < MassCountFor(genLevelId))
    /\ \E c \in { [startPos |-> Val(startAndGoal).startPos,
                   goalPos |-> Val(startAndGoal).goalPos,
                   goalRadius |-> GoalRadiusFor(genLevelId),
                   masses |-> masses \o genMasses, bounds |-> GenerationBounds] } :
          /\ candidate' = Some(c)
          /\ ValidateBegin(c)
    /\ setCount' = setCount + 1
    /\ gpc' = "validate"
    /\ startAndGoal' = Null
    /\ genMasses' = << >>
    /\ massIndex' = 0
    /\ placeAttempts' = 0
    /\ UNCHANGED shotVars
    /\ UNCHANGED << phase, currentLevelId, currentLevel, aimAngle, aimPower,
                    previewResult, flightIndex, handler, genAttempts, genLevelId,
                    actualSeed, rngSeed, generated, placedMasses >>

\* generateMasses returns; new Level({ ... }) and validateLevel(candidateLevel),
\* which begins with setMasses(level.masses)
GenerateValidate ==
    /\ gpc = "masses"
    /\ handler = "generateLevel"
    /\ ~ (massIndex < MassCountFor(genLevelId))
    /\ \E c \in { [startPos |-> Val(startAndGoal).startPos,
                   goalPos |-> Val(startAndGoal).goalPos,
                   goalRadius |-> GoalRadiusFor(genLevelId),
                   masses |-> genMasses, bounds |-> GenerationBounds] } :
          /\ candidate' = Some(c)
          /\ ValidateBegin(c)
    /\ setCount' = setCount + 1
    /\ gpc' = "validate"
    /\ startAndGoal' = Null
    /\ genMasses' = << >>
    /\ massIndex' = 0
    /\ placeAttempts' = 0
    /\ UNCHANGED shotVars
    /\ UNCHANGED << phase, currentLevelId, currentLevel, aimAngle, aimPower,
                    previewResult, flightIndex, handler, genAttempts, genLevelId,
                    actualSeed, rngSeed, generated, placedMasses >>

\* generateMasses(rng, levelId, startPos, goalPos, params), called on its own
\* with one of the given inputs
GenerateMassesCall(inputs) ==
    /\ Waiting
    /\ \E inp \in inputs :
          /\ genLevelId' = inp.levelId
          /\ rngSeed' = inp.seed
          /\ startAndGoal' = Some([startPos |-> inp.startPos, goalPos |-> inp.goalPos])
    /\ genMasses' = << >>
    /\ massIndex' = 0
    /\ placeAttempts' = 0
    /\ handler' = "generateMasses"
    /\ gpc' = "masses"
    /\ earlier' = NoteOther(earlier)
    /\ UNCHANGED shotVars
    /\ UNCHANGED << masses, startPos, startVel, options, trajectory, pos, vel,
                    reachedGoal, outOfBounds, i, tooClose, pc, caller, result, level,
                    angle, power, vpc, valid, calls, phase, currentLevelId,
                    currentLevel, aimAngle, aimPower, previewResult, flightIndex,
                    genAttempts, candidate, setCount, actualSeed, generated, placedMasses >>

\* generateMasses returns to the caller of GenerateMassesCall
GenerateMassesReturn ==
    /\ gpc = "masses"
    /\ handler = "generateMasses"
    /\ ~ (massIndex < MassCountFor(genLevelId))
    /\ gpc' = "idle"
    /\ handler' = "none"
    /\ placedMasses' = Some(genMasses)
    /\ GeneratorLeave
    /\ UNCHANGED shotVars
    /\ UNCHANGED << masses, startPos, startVel, options, trajectory, pos, vel,
                    reachedGoal, outOfBounds, i, tooClose, pc, caller, result, level,
                    angle, power, vpc, valid, calls, earlier, phase, currentLevelId,
                    currentLevel, aimAngle, aimPower, previewResult, flightIndex,
                    genAttempts, candidate, setCount, generated >>

\* generateLevel returns to the module that called it; the first level an
\* input returns is kept, with the number of candidates rejected before it
GenerateLevelReturn ==
    /\ gpc = "return"
    /\ handler = "generateLevel"
    /\ \E key \in { GenerateKey(genLevelId, actualSeed) } :
          generated' = IF IsSet(generated[key])
                       THEN generated
                       ELSE [generated EXCEPT
                               ![key] = Some([level |-> Val(candidate),
                                              attempts |-> genAttempts])]
    /\ UNCHANGED placedMasses
    /\ gpc' = "idle"
    /\ candidate' = Null
    /\ genAttempts' = 0
    /\ setCount' = 0
    /\ handler' = "none"
    /\ GeneratorLeave
    /\ UNCHANGED shotVars
    /\ UNCHANGED << masses, startPos, startVel, options, trajectory, pos, vel,
                    reachedGoal, outOfBounds, i, tooClose, pc, caller, result, level,
                    angle, power, vpc, valid, calls, earlier, phase, currentLevelId,
                    currentLevel, aimAngle, aimPower, previewResult, flightIndex >>

\* computePreview keeps the result; the handler that asked for it ends
PreviewReceive ==
    /\ pc = "done"
    /\ caller = "preview"
    /\ pc' = "idle"
    /\ previewTrajectory' = Val(result).points
    /\ previewResult' = result
    /\ handler' = "none"
    /\ UNCHANGED << masses, startPos, startVel, options, trajectory, pos, vel,
                    reachedGoal, outOfBounds, i, tooClose, caller, result, level,
                    angle, power, vpc, valid, calls, earlier, phase, currentLevelId,
                    currentLevel, aimAngle, aimPower, flightIndex, gpc, genAttempts,
                    candidate, setCount, projState, projTrajectory, attempts,
                    totalShots, frames >>
    /\ UNCHANGED genVars

\* a slider moves while the player aims: the handler sets the aim, and
\* Game.updateAim computes the preview
UpdateAim(aims) ==
    /\ Waiting
    /\ phase = "aiming"
    /\ \E a \in aims :
          /\ aimAngle' = a.angle
          /\ aimPower' = a.power
          /\ PreviewCall(Val(currentLevel), a.angle, a.power)
    /\ projState' = "aiming"
    /\ handler' = "updateAim"
    /\ earlier' = NoteOther(earlier)
    /\ UNCHANGED << masses, level, angle, power, vpc, valid, calls, phase,
                    currentLevelId, currentLevel, previewResult, flightIndex, gpc,
                    genAttempts, candidate, setCount, projTrajectory,
                    previewTrajectory, attempts, totalShots, frames >>
    /\ UNCHANGED genVars

\* a slider moves in another phase: the handler sets the aim, and
\* Game.updateAim returns at once
SliderIgnored(aims) ==
    /\ Waiting
    /\ phase \in { "flying", "success", "failed" }
    /\ \E a \in aims :
          /\ aimAngle' = a.angle
          /\ aimPower' = a.power
    /\ UNCHANGED shotVars
    /\ UNCHANGED genVars
    /\ UNCHANGED << masses, startPos, startVel, options, trajectory, pos, vel,
                    reachedGoal, outOfBounds, i, tooClose, pc, caller, result, level,
                    angle, power, vpc, valid, calls, earlier, phase, currentLevelId,
                    currentLevel, previewResult, flightIndex, handler, gpc,
                    genAttempts, candidate, setCount >>
    /\ UNCHANGED genVars

\* the shots a player takes
MaxShots == 2

\* a faulty launch, which leaves out the test of the phase
LaunchInAnyPhase ==
    /\ Waiting
    /\ phase # "menu"
    /\ totalShots < MaxShots
    /\ phase' = "flying"
    /\ attempts' = attempts + 1
    /\ totalShots' = totalShots + 1
    /\ frames' = 0
    /\ IF previewTrajectory = << >>
       THEN UNCHANGED << projState, projTrajectory, flightIndex >>
       ELSE /\ projState' = "flying"
            /\ projTrajectory' = previewTrajectory
            /\ flightIndex' = 0
    /\ UNCHANGED << masses, startPos, startVel, options, trajectory, pos, vel,
                    reachedGoal, outOfBounds, i, tooClose, pc, caller, result, level,
                    angle, power, vpc, valid, calls, earlier, currentLevelId,
                    currentLevel, aimAngle, aimPower, previewResult, handler, gpc,
                    genAttempts, candidate, setCount, previewTrajectory >>
    /\ UNCHANGED genVars

\* Game.launch in phase AIMING, with Projectile.launch, which returns at once
\* when the preview is empty
Launch ==
    /\ Waiting
    /\ phase = "aiming"
    /\ totalShots < MaxShots
    /\ phase' = "flying"
    /\ attempts' = attempts + 1
    /\ totalShots' = totalShots + 1
    /\ frames' = 0
    /\ IF previewTrajectory = << >>
       THEN UNCHANGED << projState, projTrajectory, flightIndex >>
       ELSE /\ projState' = "flying"
            /\ projTrajectory' = previewTrajectory
            /\ flightIndex' = 0
    /\ UNCHANGED << masses, startPos, startVel, options, trajectory, pos, vel,
                    reachedGoal, outOfBounds, i, tooClose, pc, caller, result, level,
                    angle, power, vpc, valid, calls, earlier, currentLevelId,
                    currentLevel, aimAngle, aimPower, previewResult, handler, gpc,
                    genAttempts, candidate, setCount, previewTrajectory >>
    /\ UNCHANGED genVars

\* Game.launch in another phase: it returns at once
LaunchIgnored ==
    /\ Waiting
    /\ phase \in { "flying", "success", "failed" }
    /\ UNCHANGED vars

\* a faulty frame, which advances by one point whatever the animation speed
UpdateBySinglePoints ==
    /\ Waiting
    /\ phase = "flying"
    /\ frames' = frames + 1
    /\ IF projState # "flying"
       THEN UNCHANGED << flightIndex, projState, phase >>
       ELSE /\ flightIndex' = flightIndex + 1
            /\ IF flightIndex + 1 >= Len(projTrajectory)
               THEN /\ projState' = "finished"
                    /\ phase' = IF IsSet(previewResult) /\ Val(previewResult).reachedGoal
                                THEN "success" ELSE "failed"
               ELSE UNCHANGED << projState, phase >>
    /\ UNCHANGED << masses, startPos, startVel, options, trajectory, pos, vel,
                    reachedGoal, outOfBounds, i, tooClose, pc, caller, result, level,
                    angle, power, vpc, valid, calls, earlier, currentLevelId,
                    currentLevel, aimAngle, aimPower, previewResult, handler, gpc,
                    genAttempts, candidate, setCount, projTrajectory,
                    previewTrajectory, attempts, totalShots >>
    /\ UNCHANGED genVars

\* Game.update in phase FLYING, with Projectile.update: one frame
Update ==
    /\ Waiting
    /\ phase = "flying"
    /\ frames' = frames + 1
    /\ IF projState # "flying"
       THEN UNCHANGED << flightIndex, projState, phase >>
       ELSE /\ flightIndex' = flightIndex + AnimationSpeed
            /\ IF flightIndex + AnimationSpeed >= Len(projTrajectory)
               THEN /\ projState' = "finished"
                    /\ phase' = IF IsSet(previewResult) /\ Val(previewResult).reachedGoal
                                THEN "success" ELSE "failed"
               ELSE UNCHANGED << projState, phase >>
    /\ UNCHANGED << masses, startPos, startVel, options, trajectory, pos, vel,
                    reachedGoal, outOfBounds, i, tooClose, pc, caller, result, level,
                    angle, power, vpc, valid, calls, earlier, currentLevelId,
                    currentLevel, aimAngle, aimPower, previewResult, handler, gpc,
                    genAttempts, candidate, setCount, projTrajectory,
                    previewTrajectory, attempts, totalShots >>
    /\ UNCHANGED genVars

\* a faulty reset, which leaves out the call of updateAim
ResetLevelWithoutAim ==
    /\ Waiting
    /\ IsSet(currentLevel)
    /\ projTrajectory' = << >>
    /\ flightIndex' = 0
    /\ previewTrajectory' = << >>
    /\ projState' = "idle"
    /\ frames' = 0
    /\ phase' = "aiming"
    /\ UNCHANGED << masses, startPos, startVel, options, trajectory, pos, vel,
                    reachedGoal, outOfBounds, i, tooClose, pc, caller, result, level,
                    angle, power, vpc, valid, calls, earlier, currentLevelId,
                    currentLevel, aimAngle, aimPower, previewResult, handler, gpc,
                    genAttempts, candidate, setCount, attempts, totalShots >>
    /\ UNCHANGED genVars

\* Game.resetLevel
ResetLevel ==
    /\ Waiting
    /\ IsSet(currentLevel)
    /\ ResetThenAim
    /\ phase' = "aiming"
    /\ PreviewCall(Val(currentLevel), aimAngle, aimPower)
    /\ handler' = "resetLevel"
    /\ earlier' = NoteOther(earlier)
    /\ UNCHANGED << masses, level, angle, power, vpc, valid, calls, currentLevelId,
                    currentLevel, aimAngle, aimPower, gpc, genAttempts, candidate,
                    setCount, attempts, totalShots >>
    /\ UNCHANGED genVars

\* the reset button, pressed with the sliders where the constructor put them
\* (this keeps the previews of the slow aim few)
ResetFresh == FreshAim /\ ResetLevel

NextGame ==
    \/ LoadPredefined(PredefinedIds)
    \/ LoadGenerated({ 6 })
    \/ NextLevel(GeneratedIds)
    \/ GenerateCandidate
    \/ ValidateCall
    \/ ValidateCheck
    \/ ValidateNextAngle
    \/ ValidateFail
    \/ GenerateAccept
    \/ GenerateReject
    \/ GenerateFallback
    \/ GenerateReturn
    \/ IterGoal
    \/ IterOutOfBounds
    \/ IterStep
    \/ LoopExit
    \/ Return
    \/ PreviewReceive
    \/ UpdateAim(AimChoices(currentLevelId, totalShots))
    \/ Launch
    \/ Update
    \/ ResetFresh

\* ------------------------------------------------------------------ specification

Init ==
    /\ masses = << >>
    /\ startPos = vec2(0, 0)
    /\ startVel = vec2(0, 0)
    /\ options = [maxSteps |-> 0, dt |-> 0, bounds |-> DefaultBounds,
                  goalPos |-> Null, goalRadius |-> 0]
    /\ trajectory = << >>
    /\ pos = vec2(0, 0)
    /\ vel = vec2(0, 0)
    /\ reachedGoal = FALSE
    /\ outOfBounds = FALSE
    /\ i = 0
    /\ tooClose = FALSE
    /\ pc = "idle"
    /\ caller = "client"
    /\ result = Null
    /\ level = Null
    /\ angle = 0
    /\ power = PowerStart
    /\ vpc = "idle"
    /\ valid = FALSE
    /\ calls = << >>
    /\ earlier = Null
    /\ GameConstructed
    /\ GeneratorIdle
    /\ generated = [key \in GenerateKeys |-> Null]
    /\ placedMasses = Null

\* the steps of a running computeTrajectory
TrajectoryStep == IterGoal \/ IterOutOfBounds \/ IterStep \/ LoopExit \/ Return

Next ==
    \/ SetMasses(MassChoices)
    \/ ClientCall(ClientInputs)
    \/ IterGoal
    \/ IterOutOfBounds
    \/ IterStep
    \/ LoopExit
    \/ Return
    \/ ClientReceive
    \/ ValidateEnter(ValidateLevels)
    \/ ValidateCall
    \/ ValidateCheck
    \/ ValidateNextAngle
    \/ ValidateFail
    \/ ValidateReceive

Spec == Init /\ [][Next]_vars

\* the same, with the scheduling of the single thread: a started call runs on
FairSpec == Spec /\ WF_vars(TrajectoryStep)

\* calls that are repeated: a client keeps one result and calls again later
NextRepeat ==
    \/ SetMasses(MassChoices)
    \/ ClientCall(RepeatedInputs)
    \/ IterGoal
    \/ IterOutOfBounds
    \/ IterStep
    \/ LoopExit
    \/ Return
    \/ ClientReceive
    \/ ClientKeep
    \/ ValidateEnter({ LevelAtGoal })
    \/ ValidateCall
    \/ ValidateCheck
    \/ ValidateReceive

SpecRepeat == Init /\ [][NextRepeat]_vars

\* ------------------------------------------------------------------ the core, called directly

\* the number of integrateRK4 calls a client makes in a row
IntegrateCalls == 1

\* the points and velocities a client passes: mass centres, points next to a
\* mass, points far from every mass; at rest and moving
CorePoints ==
    { vec2(x, y) : x \in { -3000, -400, 0, 2000, 3000 }, y \in { -3000, 0, 1500 } }
        \cup { vec2(-10, -10) }
CoreVelocities == { vec2(0, 0), vec2(2000, 0), vec2(-1000, 1500) }

\* the steps dt a client passes: the ones of the game and a tenfold one
CoreSteps == DtChoices \cup { 100 }

\* a moving particle is stepped outside the capture radius of every mass only,
\* as in computeTrajectory after its first step, and by a step of the game:
\* there its accelerations stay within the range of the model's integers
InModelRange(ms, p, v, dt) == v = vec2(0, 0) \/ (~ TooClose(ms, p) /\ dt \in DtChoices)

\* after setMasses(...), before a call of an exported function of physics.js
InitCore ==
    /\ masses \in MassChoices
    /\ pos \in CorePoints
    /\ vel \in CoreVelocities
    /\ \E d \in CoreSteps :
          options = [maxSteps |-> 0, dt |-> d, bounds |-> DefaultBounds,
                     goalPos |-> Null, goalRadius |-> 0]
    /\ InModelRange(masses, pos, vel, options.dt)
    /\ startPos = pos
    /\ startVel = vel
    /\ trajectory = << >>
    /\ reachedGoal = FALSE
    /\ outOfBounds = FALSE
    /\ i = 0
    /\ tooClose = FALSE
    /\ pc = "idle"
    /\ caller = "client"
    /\ result = Null
    /\ level = Null
    /\ angle = 0
    /\ power = PowerStart
    /\ vpc = "idle"
    /\ valid = FALSE
    /\ calls = << >>
    /\ earlier = Null
    /\ GameConstructed
    /\ GeneratorIdle
    /\ generated = [key \in GenerateKeys |-> Null]
    /\ placedMasses = Null

\* a client calls integrateRK4(pos, vel, dt) and keeps the returned state
IntegrateOnce ==
    /\ pc = "idle"
    /\ i < IntegrateCalls
    /\ InModelRange(masses, pos, vel, options.dt)
    /\ \E r \in { integrateRK4(masses, pos, vel, options.dt) } :
          /\ pos' = r.pos
          /\ vel' = r.vel
    /\ i' = i + 1
    /\ UNCHANGED gameVars
    /\ UNCHANGED shotVars
    /\ UNCHANGED genVars
    /\ UNCHANGED << masses, startPos, startVel, options, trajectory, reachedGoal,
                    outOfBounds, tooClose, pc, caller, result, level, angle, power,
                    vpc, valid, calls, earlier >>

NextCore == IntegrateOnce

SpecCore == InitCore /\ [][NextCore]_vars

\* ------------------------------------------------------------------ launches of level 1

\* the launch along the axis through the mass, as the preview makes it
AxisLaunch ==
    [startPos |-> vec2(-3500, 0), startVel |-> vec2(2000, 0),
     options |-> [maxSteps |-> ValidateMaxSteps, dt |-> ValidateDt, bounds |-> DefaultBounds,
                  goalPos |-> Some(vec2(3500, 0)), goalRadius |-> 500]]

\* a particle released at rest at distance 3 from the mass
RestLaunch ==
    [startPos |-> vec2(-3000, 0), startVel |-> vec2(0, 0),
     options |-> [maxSteps |-> ValidateMaxSteps, dt |-> ValidateDt, bounds |-> DefaultBounds,
                  goalPos |-> Some(vec2(3500, 0)), goalRadius |-> 500]]

\* the same release, with too few steps to reach the mass
ShortRestLaunch ==
    [startPos |-> vec2(-3000, 0), startVel |-> vec2(0, 0),
     options |-> [maxSteps |-> MaxStepsBound, dt |-> ValidateDt, bounds |-> DefaultBounds,
                  goalPos |-> Some(vec2(3500, 0)), goalRadius |-> 500]]

\* a launch away from the mass, from next to the right edge
EdgeLaunch ==
    [startPos |-> vec2(4990, 0), startVel |-> vec2(2000, 0),
     options |-> [maxSteps |-> ValidateMaxSteps, dt |-> ValidateDt, bounds |-> DefaultBounds,
                  goalPos |-> Some(vec2(3500, 0)), goalRadius |-> 500]]

\* a launch from inside the goal disc
GoalLaunch ==
    [startPos |-> vec2(3400, 0), startVel |-> vec2(2000, 0),
     options |-> [maxSteps |-> ValidateMaxSteps, dt |-> ValidateDt, bounds |-> DefaultBounds,
                  goalPos |-> Some(vec2(3500, 0)), goalRadius |-> 500]]

Launches == { AxisLaunch, RestLaunch, ShortRestLaunch, EdgeLaunch, GoalLaunch }

NextLaunch ==
    \/ SetMasses({ Level1Masses })
    \/ ClientCall(Launches)
    \/ IterGoal
    \/ IterOutOfBounds
    \/ IterStep
    \/ LoopExit
    \/ Return
    \/ ClientReceive

\* the masses are set before the first launch (Game.loadLevel), and a started
\* call runs on
SpecLaunch ==
    /\ Init
    /\ [][NextLaunch]_vars
    /\ WF_vars(TrajectoryStep)

\* the game: the constructor loads level 1, then the player acts
SpecGame == Init /\ [][NextGame]_vars

\* ------------------------------------------------------------------ shots at level 1

\* the aims the sliders are moved to: one that reaches the goal of level 1 and
\* one that leaves the bounds behind the start; the first shots may be taken
\* with the initial aim, which leaves the bounds too
GoalAim == [angle |-> 345, power |-> 5000]

AwayAim == [angle |-> 180, power |-> 5000]

ShotAims == { GoalAim, AwayAim }

\* the player aims, shoots, watches and resets; no preview of these aims uses
\* up maxSteps
NextShots ==
    \/ LoadPredefined(PredefinedIds)
    \/ UpdateAim(ShotAims)
    \/ SliderIgnored(ShotAims)
    \/ IterGoal
    \/ IterOutOfBounds
    \/ IterStep
    \/ Return
    \/ PreviewReceive
    \/ Launch
    \/ LaunchIgnored
    \/ Update
    \/ ResetLevel

\* the render loop calls Game.update at every frame
SpecShots == Init /\ [][NextShots]_vars /\ WF_vars(Update)

\* ------------------------------------------------------------------ calls of generateLevel

\* the mass collections another module sets
ClientMasses == { << >>, << MassFar, MassAtOrigin >> }

\* the constructor's loadLevel(1)
GameStart == phase = "menu" /\ LoadPredefined(PredefinedIds)

\* the game shows level 1: another module uses the generator and the physics
PredefinedShown == Waiting /\ phase = "aiming" /\ currentLevelId <= PredefinedCount

\* the level select, from level 1 to level 7, whose candidates are all
\* rejected (once the other module has had the given inputs generated and
\* has called generateMasses last; this keeps the states of the load few)
LoadFallbackAfter(keys) ==
    /\ \A key \in keys : IsSet(generated[key])
    /\ IsSet(placedMasses)
    /\ LoadGenerated({ 7 })

LoadFallbackLevel == PredefinedShown /\ LoadFallbackAfter(GenerateKeys)

\* another module calls generateLevel(levelId, seed)
DirectCall == PredefinedShown /\ GenerateLevelCall(GenerateInputs)

\* generateMasses runs on its own
DirectMassesCall == PredefinedShown /\ GenerateMassesCall(CrowdedInputs)

\* another module calls setMasses
DirectSetMasses == PredefinedShown /\ handler = "none" /\ SetMasses(ClientMasses)

\* the steps of a running generateLevel, and of the load that called it
GeneratorStep ==
    \/ GenerateCandidate
    \/ GenerateStartAndGoal
    \/ PlaceMass
    \/ OmitMass
    \/ GenerateMassesReturn
    \/ GenerateValidate
    \/ ValidateCall
    \/ ValidateCheck
    \/ ValidateNextAngle
    \/ ValidateFail
    \/ GenerateAccept
    \/ GenerateReject
    \/ GenerateFallback
    \/ GenerateReturn
    \/ GenerateLevelReturn
    \/ IterGoal
    \/ IterOutOfBounds
    \/ IterStep
    \/ Return
    \/ PreviewReceive

NextGenerate ==
    \/ GameStart
    \/ LoadFallbackLevel
    \/ DirectCall
    \/ DirectMassesCall
    \/ DirectSetMasses
    \/ GeneratorStep

SpecGenerate == Init /\ [][NextGenerate]_vars

\* the same with one input, the level of two masses
OneInput == { inp \in GenerateInputs : MassCountFor(inp.levelId) = 2 }

DirectCallOfOne == PredefinedShown /\ GenerateLevelCall(OneInput)

LoadFallbackAfterOne ==
    /\ PredefinedShown
    /\ LoadFallbackAfter({ GenerateKey(inp.levelId, Val(inp.seed)) : inp \in OneInput })

NextOneInput ==
    \/ GameStart
    \/ LoadFallbackAfterOne
    \/ DirectCallOfOne
    \/ DirectMassesCall
    \/ GeneratorStep

\* generateLevel and its callers are synchronous code: a call that has begun
\* runs on
SpecOneInput == Init /\ [][NextOneInput]_vars /\ WF_vars(GeneratorStep)

\* ---------------------------------------------------------------------------
\* Properties of computeTrajectory.  The predicates below restate the tests on
\* the data of a call (its options, the module's masses), independently of the
\* operators the actions use.

Dist(p, q) == Hypot(p.x - q.x, p.y - q.y)

Last(s) == s[Len(s)]

Finished == pc = "done"

Outcome == Val(result)

InGoalDisc(p) ==
    /\ IsSet(options.goalPos)
    /\ Dist(p, Val(options.goalPos)) < options.goalRadius

OffBounds(p) ==
    \/ p.x < options.bounds.minX
    \/ p.x > options.bounds.maxX
    \/ p.y < options.bounds.minY
    \/ p.y > options.bounds.maxY

NearMassOf(ms, p) == \E k \in 1..Len(ms) : Dist(p, ms[k]) < CaptureRadius

NearSomeMass(p) == NearMassOf(masses, p)

\* C1: a recorded position that is both strictly inside the goal disc and
\* outside the bounds is the last one of the run, and the run returns
\* reachedGoal = true with outOfBounds = false: the goal test comes first.
C1_GoalBeforeBounds ==
    Finished =>
        \A k \in 1..Len(Outcome.points) :
            (InGoalDisc(Outcome.points[k]) /\ OffBounds(Outcome.points[k])) =>
                /\ k = Len(Outcome.points)
                /\ Outcome.reachedGoal
                /\ ~ Outcome.outOfBounds

\* C1, the case happens after a step: the run moved to a position outside the
\* bounds and inside the goal disc
C1_Witness ==
    /\ Finished
    /\ Len(Outcome.points) >= 2
    /\ InGoalDisc(Last(Outcome.points))
    /\ OffBounds(Last(Outcome.points))

\* C1, the case happens at the start position itself
C1_WitnessAtStart ==
    /\ Finished
    /\ Len(Outcome.points) = 1
    /\ InGoalDisc(startPos)
    /\ OffBounds(startPos)

\* C2 as stated: a run ended by the capture rule returns an outcome that
\* differs from the one of a run that used up maxSteps, whose flags are both
\* false.
C2_CapturedIsDistinct ==
    (Finished /\ tooClose) => (Outcome.reachedGoal \/ Outcome.outOfBounds)

\* C2, amended: the returned record has no field for the capture; a run ended
\* by the capture rule returns both flags false, as a run that used up
\* maxSteps does, and it is told apart only by finalPos lying within the
\* capture radius of a mass.
C2_CapturedOnlyByFinalPos ==
    Finished =>
        /\ DOMAIN Outcome = { "points", "reachedGoal", "outOfBounds", "finalPos" }
        /\ tooClose <=> /\ ~ Outcome.reachedGoal
                        /\ ~ Outcome.outOfBounds
                        /\ Outcome.points # << >>
                        /\ NearSomeMass(Outcome.finalPos)

C2_Witness ==
    /\ Finished
    /\ tooClose
    /\ NearSomeMass(Outcome.finalPos)
    /\ Len(Outcome.points) >= 1

\* C3: with maxSteps >= 1 every call terminates, and the returned points
\* number at least 1 and at most maxSteps + 1.
C3_TerminatesWithinBudget ==
    /\ [](Finished /\ options.maxSteps >= 1 =>
             /\ Len(Outcome.points) >= 1
             /\ Len(Outcome.points) <= options.maxSteps + 1)
    /\ (pc = "loop") ~> Finished

C3_Witness ==
    /\ Finished
    /\ options.maxSteps = MaxStepsBound
    /\ Len(Outcome.points) = options.maxSteps

\* no recorded position passes the goal test or the bounds test, and no
\* stepped position is within the capture radius of a mass
QuietRun ==
    /\ \A k \in 1..Len(Outcome.points) :
          ~ InGoalDisc(Outcome.points[k]) /\ ~ OffBounds(Outcome.points[k])
    /\ \A k \in 2..Len(Outcome.points) : ~ NearSomeMass(Outcome.points[k])
    /\ Outcome.points # << >> => ~ NearSomeMass(Outcome.finalPos)

\* C4: a run in which no recorded position satisfies the goal or the bounds
\* test and no stepped position is within 0.3 of a mass ends after exactly
\* maxSteps integrator steps, with both flags false and exactly maxSteps
\* points.
C4_Exhausted ==
    (Finished /\ QuietRun) =>
        /\ i = options.maxSteps
        /\ Len(Outcome.points) = options.maxSteps
        /\ ~ Outcome.reachedGoal
        /\ ~ Outcome.outOfBounds

C4_Witness ==
    /\ Finished
    /\ QuietRun
    /\ options.maxSteps >= 2
    /\ Outcome.finalPos # startPos

\* an iteration that integrated: it recorded a point and set no flag
StepTaken ==
    /\ pc = "loop"
    /\ Len(trajectory') = Len(trajectory) + 1
    /\ ~ reachedGoal'
    /\ ~ outOfBounds'

\* C5: after each integrator step, a new position strictly within 0.3 of any
\* mass, whatever its index, ends the run at once with neither flag set and no
\* further step; otherwise the run goes on to the next iteration.
C5_CaptureEndsRun ==
    [][ /\ StepTaken =>
              IF NearMassOf(masses', pos')
              THEN pc' = "return" /\ i' = i
              ELSE pc' = "loop" /\ i' = i + 1
        /\ pc = "return" =>
              /\ pc' = "done"
              /\ Val(result').finalPos = pos
              /\ Val(result').points = trajectory
              /\ Val(result').reachedGoal = reachedGoal
              /\ Val(result').outOfBounds = outOfBounds ]_vars

\* C5, the capturing mass is not the first of the list
C5_Witness ==
    /\ pc = "return"
    /\ tooClose
    /\ ~ reachedGoal
    /\ ~ outOfBounds
    /\ Len(masses) >= 2
    /\ Dist(pos, masses[1]) >= CaptureRadius
    /\ NearSomeMass(pos)

\* the points k..n of the outcome are those recorded at the successive
\* integrator steps from the state st
RECURSIVE Replays(_, _, _)
Replays(st, k, n) ==
    IF k > n THEN TRUE
    ELSE /\ Outcome.points[k] = RecordPoint(masses, st.pos)
         /\ Replays(integrateRK4(masses, st.pos, st.vel, options.dt), k + 1, n)

\* C6: the first returned point is at startPos, and every later point is at
\* the position one integrateRK4 step of dt after the state recorded at the
\* point before it: no point is recorded twice, skipped or out of order.
C6_PointsAreSuccessiveSteps ==
    Finished =>
        /\ Outcome.points # << >> =>
              /\ Outcome.points[1].x = startPos.x
              /\ Outcome.points[1].y = startPos.y
        /\ Replays([pos |-> startPos, vel |-> startVel], 1, Len(Outcome.points))

C6_Witness ==
    /\ Finished
    /\ Len(Outcome.points) >= 3
    /\ masses # << >>
    /\ Outcome.points[3].x # Outcome.points[2].x
    /\ Outcome.points[2].x # Outcome.points[1].x

\* the inputs of the running call are those of the kept one
SameAsKept ==
    /\ IsSet(earlier)
    /\ Val(earlier).masses = masses
    /\ Val(earlier).startPos = startPos
    /\ Val(earlier).startVel = startVel
    /\ Val(earlier).options = options

\* C7: two calls with the same masses, startPos, startVel and options return
\* the same outcome, whatever calls were made in between.
C7_SameInputsSameOutcome ==
    (Finished /\ SameAsKept) => Outcome = Val(earlier).result

\* C7, other calls were made between the two, and the run took steps
C7_Witness ==
    /\ Finished
    /\ SameAsKept
    /\ Val(earlier).between
    /\ Len(Outcome.points) >= 2
    /\ Outcome = Val(earlier).result

\* C8: a call changes none of the mass collection, startPos, startVel and
\* options, and it starts from its arguments alone: nothing of an earlier call
\* is kept.
C8_InputsUntouched ==
    [][ /\ pc \in { "loop", "return", "done" } =>
              UNCHANGED << masses, startPos, startVel, options >>
        /\ (pc = "idle" /\ pc' = "loop") =>
              /\ masses' = masses
              /\ pos' = startPos'
              /\ vel' = startVel'
              /\ trajectory' = << >>
              /\ i' = 0
              /\ ~ reachedGoal'
              /\ ~ outOfBounds' ]_vars

\* C8, a call that has moved away from its start under a mass
C8_Witness ==
    /\ Finished
    /\ masses # << >>
    /\ Len(Outcome.points) >= 2
    /\ Outcome.finalPos # startPos

\* C9: reachedGoal is true exactly when goalPos is given and the last recorded
\* point is strictly closer to it than goalRadius; it is false without a
\* goalPos and with goalRadius = 0.
C9_ReachedGoalIff ==
    Finished =>
        /\ Outcome.reachedGoal <=>
              /\ IsSet(options.goalPos)
              /\ Outcome.points # << >>
              /\ Dist(Last(Outcome.points), Val(options.goalPos)) < options.goalRadius
        /\ ~ IsSet(options.goalPos) => ~ Outcome.reachedGoal
        /\ options.goalRadius = 0 => ~ Outcome.reachedGoal

\* C9, a run that ends exactly on a goal of radius 0
C9_Witness ==
    /\ Finished
    /\ IsSet(options.goalPos)
    /\ options.goalRadius = 0
    /\ Outcome.points # << >>
    /\ Dist(Last(Outcome.points), Val(options.goalPos)) = 0
    /\ ~ Outcome.reachedGoal

\* the 24 angles and the 9 powers of the search
SearchAngles == { 15 * k : k \in 0..23 }

SearchPowers == { 1000 + 500 * k : k \in 0..8 }

\* the simulator call of validateLevel for the pair (a, p) has the level's
\* start, goal, bounds and masses, maxSteps 2000 and dt 0.01
IsSearchCall(c) ==
    /\ c.angle \in SearchAngles
    /\ c.power \in SearchPowers
    /\ c.masses = Val(level).masses
    /\ c.startPos = Val(level).startPos
    /\ c.startVel = [x |-> Mul(CosDeg(c.angle), c.power),
                     y |-> Mul(SinDeg(c.angle), c.power)]
    /\ c.options = [maxSteps |-> 2000, dt |-> 10, bounds |-> Val(level).bounds,
                    goalPos |-> Some(Val(level).goalPos),
                    goalRadius |-> Val(level).goalRadius]

\* C10: validateLevel returns true exactly when one of the trajectories of the
\* 24 x 9 (angle, power) pairs reaches the goal; it runs the simulator at most
\* once per pair, and exactly 216 times on a level that no pair solves.
C10_ValidateSearch ==
    vpc = "done" =>
        /\ valid <=> \E k \in 1..Len(calls) : calls[k].reachedGoal
        /\ \A k \in 1..Len(calls) : IsSearchCall(calls[k])
        /\ \A j, k \in 1..Len(calls) :
              (calls[j].angle = calls[k].angle /\ calls[j].power = calls[k].power)
                  => j = k
        /\ Len(calls) <= 216
        /\ ~ valid => Len(calls) = 216

\* C10, the search of a level that no pair solves
C10_Witness ==
    /\ vpc = "done"
    /\ ~ valid
    /\ Len(calls) = 216
    /\ Val(level).masses # << >>

\* C10, a search that succeeds after failed pairs
C10_WitnessSolved ==
    /\ vpc = "done"
    /\ valid
    /\ Len(calls) > 1

\* ---------------------------------------------------------------------------
\* Properties of the functions of physics.js, at the points of SpecCore.

\* the height a single mass m gives at p
Contribution(m, p) == gravitationalHeight(<< m >>, p.x, p.y)

RECURSIVE SumOfContributions(_, _, _)
SumOfContributions(ms, k, p) ==
    IF k > Len(ms) THEN 0 ELSE SumOfContributions(ms, k + 1, p) + Contribution(ms[k], p)

AtCentreOf(m, p) == p.x = m.x /\ p.y = m.y

\* C19: gravitationalHeight divides by dist + 0.5 >= 0.5 only: the part of a
\* mass is between -strength / 0.5 and 0, it is exactly -strength / 0.5 for a
\* mass at distance 0, and the height is the (finite) sum of the parts.
C19_HeightIsFinite ==
    /\ \A k \in 1..Len(masses) :
          /\ Contribution(masses[k], pos) <= 0
          /\ Contribution(masses[k], pos) >= 0 - 2 * masses[k].strength
          /\ Contribution(masses[k], pos) * (Dist(pos, masses[k]) + Half)
                \in (0 - masses[k].strength * Scale - Dist(pos, masses[k]) - Half)
                    .. (0 - masses[k].strength * Scale + Dist(pos, masses[k]) + Half)
          /\ AtCentreOf(masses[k], pos) =>
                Contribution(masses[k], pos) = 0 - 2 * masses[k].strength
    /\ gravitationalHeight(masses, pos.x, pos.y) = SumOfContributions(masses, 1, pos)

\* C19, a step was made from the centre of a mass
C19_Witness ==
    /\ i = 1
    /\ pos # startPos
    /\ \E k \in 1..Len(masses) : AtCentreOf(masses[k], startPos)

\* the five points at which computeChristoffel reads the metric around p
Stencil(p) ==
    { p, vec2(p.x + ChristoffelEps, p.y), vec2(p.x - ChristoffelEps, p.y),
      vec2(p.x, p.y + ChristoffelEps), vec2(p.x, p.y - ChristoffelEps) }

\* the metrics computeMetric returns on the stencil of p
MetricsAround(ms, p) == { computeMetric(ms, q.x, q.y) : q \in Stencil(p) }

IdentityMetric == [g11 |-> Scale, g12 |-> 0, g21 |-> 0, g22 |-> Scale]

NoCurvature == [G111 |-> 0, G112 |-> 0, G122 |-> 0, G211 |-> 0, G212 |-> 0, G222 |-> 0]

\* a value that is not a number or infinite comes out of a division by zero:
\* by dist + 0.5 in gravitationalHeight, or by det in computeChristoffel
SomeDivisorIsZero(ms, p) ==
    \/ \E k \in 1..Len(ms) : Dist(p, ms[k]) + HeightOffset = 0
    \/ \E g \in MetricsAround(ms, p) : MetricDet(g) = 0

\* C12 as stated: with zero masses the results of the core are not-a-number
\* or infinite values.
C12_ZeroMassesNotFinite == masses = << >> => SomeDivisorIsZero(masses, pos)

\* C12, amended: with zero masses the core raises no error and its results
\* are finite: the height is 0, the gradient (0, 0), the metric the identity
\* with determinant 1, every Christoffel symbol 0, a trajectory point has
\* z = 0, and an integrateRK4 step moves the particle along a straight line
\* with unchanged velocity.
C12_ZeroMassesFlat ==
    masses = << >> =>
        /\ gravitationalHeight(masses, pos.x, pos.y) = 0
        /\ computeGradient(masses, pos.x, pos.y, GradientEps) = [dzdx |-> 0, dzdy |-> 0]
        /\ computeMetric(masses, pos.x, pos.y) = IdentityMetric
        /\ MetricDet(computeMetric(masses, pos.x, pos.y)) = Scale
        /\ computeChristoffel(masses, pos.x, pos.y, ChristoffelEps) = NoCurvature
        /\ totalAcceleration(masses, pos, vel) = vec2(0, 0)
        /\ RecordPoint(masses, pos) = [x |-> pos.x, y |-> pos.y, z |-> 0]
        /\ integrateRK4(masses, pos, vel, options.dt)
             = [pos |-> add2D(pos, scale2D(vel, options.dt)), vel |-> vel]

\* C12, a moving particle has made a step with zero masses
C12_Witness ==
    /\ masses = << >>
    /\ i = 1
    /\ vel # vec2(0, 0)
    /\ pos = add2D(startPos, scale2D(startVel, options.dt))

\* the entry g_ab of a metric
Entry(g, a, b) ==
    IF a = 1 /\ b = 1 THEN g.g11
    ELSE IF a = 2 /\ b = 2 THEN g.g22
    ELSE IF a = 1 THEN g.g12 ELSE g.g21

\* the entry g^ab of the inverse of a metric
InverseEntry(g, a, b) ==
    IF a = b THEN Div(Entry(g, 3 - a, 3 - b), MetricDet(g))
    ELSE Div(0 - Entry(g, a, b), MetricDet(g))

\* the centered difference of g_ab along coordinate c, from the metrics at
\* the four neighbours s = << gxp, gxm, gyp, gym >>
Partial(s, a, b, c) ==
    IF c = 1 THEN Div(Entry(s[1], a, b) - Entry(s[2], a, b), 2 * ChristoffelEps)
    ELSE Div(Entry(s[3], a, b) - Entry(s[4], a, b), 2 * ChristoffelEps)

\* 1/2 g^il (d_k g_lj + d_j g_lk - d_l g_jk), summed over l = 1, 2
Gamma(g, s, a, j, k) ==
    Mul(Half,
        Mul(InverseEntry(g, a, 1), Partial(s, 1, j, k) + Partial(s, 1, k, j) - Partial(s, j, k, 1))
      + Mul(InverseEntry(g, a, 2), Partial(s, 2, j, k) + Partial(s, 2, k, j) - Partial(s, j, k, 2)))

FullChristoffel(g, s) ==
    [G111 |-> Gamma(g, s, 1, 1, 1), G112 |-> Gamma(g, s, 1, 1, 2), G122 |-> Gamma(g, s, 1, 2, 2),
     G211 |-> Gamma(g, s, 2, 1, 1), G212 |-> Gamma(g, s, 2, 1, 2), G222 |-> Gamma(g, s, 2, 2, 2)]

\* the metric at p
MetricAt(ms, p) == { computeMetric(ms, p.x, p.y) }

\* the metrics at the four neighbours of p: x + eps, x - eps, y + eps, y - eps
NeighbourMetrics(ms, p) ==
    { << computeMetric(ms, p.x + ChristoffelEps, p.y), computeMetric(ms, p.x - ChristoffelEps, p.y),
         computeMetric(ms, p.x, p.y + ChristoffelEps), computeMetric(ms, p.x, p.y - ChristoffelEps) >> }

GradientAt(ms, p) == { computeGradient(ms, p.x, p.y, GradientEps) }

\* the velocity v points down the slope: its product with the gradient is negative
DownTheGradient(v, grad) == v.x * grad.dzdx + v.y * grad.dzdy < 0

\* what C15 says of a particle at rest at pos, and of the step it makes
AtRestStep(grad) ==
    /\ geodesicAcceleration(masses, pos, vel) = vec2(0, 0)
    /\ totalAcceleration(masses, pos, vel) = vec2(0 - 2 * grad.dzdx, 0 - 2 * grad.dzdy)
    /\ grad # [dzdx |-> 0, dzdy |-> 0] =>
          /\ vel' # vec2(0, 0)
          /\ DownTheGradient(vel', grad)

StateVector(p, v) == << p.x, p.y, v.x, v.y >>

\* dt * (d/dt)(pos, vel) at the state s, for dpos/dt = vel and
\* dvel/dt = totalAcceleration(pos, vel)
Increment(ms, s, dt) ==
    << Mul(s[3], dt), Mul(s[4], dt),
       Mul(totalAcceleration(ms, vec2(s[1], s[2]), vec2(s[3], s[4])).x, dt),
       Mul(totalAcceleration(ms, vec2(s[1], s[2]), vec2(s[3], s[4])).y, dt) >>

\* the state s advanced by half of / by all of the increment k
HalfStep(s, k) == [j \in 1..4 |-> s[j] + Mul(k[j], Half)]
FullStep(s, k) == [j \in 1..4 |-> s[j] + k[j]]

\* s + (k1 + 2 k2 + 2 k3 + k4) / 6
Weighted(s, k1, k2, k3, k4) ==
    [j \in 1..4 |-> s[j] + DivInt(k1[j] + 2 * k2[j] + 2 * k3[j] + k4[j], 6)]

\* the states the classical Runge-Kutta step of length dt leads to from s
ClassicalRK4(ms, s, dt) ==
    { Weighted(s, k1, k2, k3, k4) :
        k1 \in { Increment(ms, s, dt) },
        k2 \in { Increment(ms, HalfStep(s, Increment(ms, s, dt)), dt) },
        k3 \in { Increment(ms, HalfStep(s, Increment(ms,
                                 HalfStep(s, Increment(ms, s, dt)), dt)), dt) },
        k4 \in { Increment(ms, FullStep(s, Increment(ms, HalfStep(s, Increment(ms,
                                 HalfStep(s, Increment(ms, s, dt)), dt)), dt)), dt) } }

\* C16: integrateRK4(pos, vel, dt) is the classical fourth-order Runge-Kutta
\* step of dpos/dt = vel, dvel/dt = totalAcceleration(pos, vel): stages 2 and
\* 3 at the state advanced by half of the stage before, stage 4 at the state
\* advanced by all of stage 3, increments weighted (1, 2, 2, 1) / 6.
C16_ClassicalRK4 ==
    [][i' = i + 1 =>
          StateVector(pos', vel') \in ClassicalRK4(masses, StateVector(pos, vel), options.dt)]_vars

\* C16, a step in a field that changes velocity and position
C16_Witness ==
    /\ i = 1
    /\ masses # << >>
    /\ startVel # vec2(0, 0)
    /\ vel # startVel
    /\ pos # add2D(startPos, scale2D(startVel, options.dt))

\* ---------------------------------------------------------------------------
\* Properties of the launches of level 1.

\* the running or finished call is the launch inp, in the field of level 1
IsLaunch(inp) ==
    /\ masses = Level1Masses
    /\ startPos = inp.startPos
    /\ startVel = inp.startVel
    /\ options = inp.options

Started(inp) == pc = "loop" /\ i = 0 /\ trajectory = << >> /\ IsLaunch(inp)

\* the call returned, neither flag is set and the last stepped position is
\* strictly within 0.3 of the mass: the capture rule ended it
EndedCaptured(inp) ==
    /\ Finished
    /\ IsLaunch(inp)
    /\ ~ Outcome.reachedGoal
    /\ ~ Outcome.outOfBounds
    /\ Len(Outcome.points) < inp.options.maxSteps
    /\ NearMassOf(Level1Masses, Outcome.finalPos)

EndedSuccess(inp) == Finished /\ IsLaunch(inp) /\ Outcome.reachedGoal

\* C17 as stated: the launch of level 1 along the axis, with velocity (2, 0)
\* from (-3.5, 0), terminates with reachedGoal = true.
C17_AxisLaunchSucceeds == Started(AxisLaunch) ~> EndedSuccess(AxisLaunch)

\* C17, amended: that launch terminates captured: it runs into the mass that
\* sits on the axis between start and goal, and returns with both flags
\* false and a final position within 0.3 of the mass, on the start's side.
C17_AxisLaunchIsCaptured ==
    Started(AxisLaunch) ~> (EndedCaptured(AxisLaunch) /\ Outcome.finalPos.x < 0)

\* C17, the axis launch has returned after more than a hundred steps
C17_Witness ==
    /\ Finished
    /\ IsLaunch(AxisLaunch)
    /\ Len(Outcome.points) > 100
    /\ Outcome.finalPos.x > -300

\* C18: a particle released at rest at distance 3 from the single mass, with
\* bounds [-5, 5] x [-5, 5] and maxSteps 2000, eventually terminates
\* captured (a stepped position within 0.3 of the mass), never out of bounds
\* and never with the goal reached.
C18_RestLaunchIsCaptured ==
    /\ Started(RestLaunch) ~> EndedCaptured(RestLaunch)
    /\ [](IsLaunch(RestLaunch) => ~ reachedGoal /\ ~ outOfBounds)

\* C18, the released particle has fallen into the mass
C18_Witness ==
    /\ Finished
    /\ IsLaunch(RestLaunch)
    /\ Dist(Outcome.finalPos, MassAtOrigin) < CaptureRadius
    /\ Dist(Outcome.points[1], MassAtOrigin) = 3 * Scale

\* ---------------------------------------------------------------------------
\* Properties of the level loads.

\* a level has been loaded and no handler is running
LoadEnded == handler = "none" /\ phase # "menu"

\* the setMasses calls generateLevel has made so far: one per candidate handed
\* to validateLevel
OnePerCandidate ==
    /\ gpc = "loop" => setCount = genAttempts
    /\ gpc = "validate" => setCount = genAttempts + 1
    /\ gpc = "return" => setCount \in { genAttempts, genAttempts + 1 }

\* the step belongs to no load
OutsideLoad == handler # "loadLevel" /\ handler' # "loadLevel"

\* C11 as stated: each level load, of a predefined or of a generated level
\* id, sets the process-wide mass collection exactly once.
C11_EveryLoadSetsMassesOnce == LoadEnded => setCount = 1

\* C11, amended: a load of a predefined level sets the mass collection exactly
\* once; a load of a generated level sets it once for every candidate that
\* generateLevel hands to validateLevel and once more in loadLevel, between 2
\* and maxAttempts + 1 times; when the load has ended the collection holds the
\* masses of the loaded level, and between the end of that load and the next
\* load no operation (aiming, preview, launch, flight, reset) replaces it.
C11_LoadSetsMassesThenKept ==
    /\ [](LoadEnded =>
            /\ masses = Val(currentLevel).masses
            /\ IF currentLevelId <= PredefinedCount
               THEN setCount = 1
               ELSE setCount \in 2..(MaxAttempts + 1))
    /\ [](handler = "loadLevel" => OnePerCandidate)
    /\ [][OutsideLoad => masses' = masses /\ setCount' = setCount]_vars

\* C11, a generated level whose first candidate was rejected has been
\* loaded, launched and flown to the end: three setMasses calls, and the
\* masses are the loaded level's, not the rejected candidate's
C11_Witness ==
    /\ LoadEnded
    /\ currentLevelId > PredefinedCount
    /\ setCount = 3
    /\ masses = Val(currentLevel).masses
    /\ masses # LevelOffField.masses
    /\ phase = "success"
    /\ flightIndex > 0

\* ---------------------------------------------------------------------------
\* Properties of the flags and of finalPos.

\* C26: in every result of computeTrajectory reachedGoal and outOfBounds are
\* never both true; neither are the two locals at any point of a run.
C26_FlagsExclusive ==
    /\ ~ (reachedGoal /\ outOfBounds)
    /\ IsSet(result) => ~ (Outcome.reachedGoal /\ Outcome.outOfBounds)

\* C26, a run has ended on a recorded position that passes both tests: it is
\* inside the goal disc and outside the bounds
C26_Witness ==
    /\ Finished
    /\ Outcome.reachedGoal
    /\ ~ Outcome.outOfBounds
    /\ OutsideBounds(Last(Outcome.points), options.bounds)

\* the run ended in the break of the goal test or of the bounds test
EndedByFlag == Outcome.reachedGoal \/ Outcome.outOfBounds

\* the (x, y) of the last returned point
LastRecorded == vec2(Last(Outcome.points).x, Last(Outcome.points).y)

\* the (x, y) of the returned points
RecordedPositions ==
    { vec2(Outcome.points[k].x, Outcome.points[k].y) : k \in 1..Len(Outcome.points) }

\* the state n integrator steps after the state st
RECURSIVE StateAfter(_, _)
StateAfter(st, n) ==
    IF n = 0 THEN st
    ELSE StateAfter(integrateRK4(masses, st.pos, st.vel, options.dt), n - 1)

\* the state in which the call starts
StartState == [pos |-> startPos, vel |-> startVel]

\* C27 as stated: for maxSteps >= 1, finalPos equals the (x, y) of the last
\* point exactly when the run ended with reachedGoal or outOfBounds, and
\* otherwise finalPos is a position that is not in points.
C27_FinalPosRecordedIffFlag ==
    (Finished /\ options.maxSteps >= 1) =>
        /\ Outcome.finalPos = LastRecorded <=> EndedByFlag
        /\ ~ EndedByFlag => Outcome.finalPos \notin RecordedPositions

\* C27, amended: for maxSteps >= 1, a run that ended with reachedGoal or
\* outOfBounds returns as finalPos the (x, y) of its last point; a run that
\* ended by capture or by exhausting maxSteps returns the position one
\* integrator step after the last point, which was not recorded; that
\* position differs from the last point only if the step moved the particle
\* (a particle at rest in a flat field stays where it is, and finalPos then
\* equals the last point although neither flag is set).
C27_FinalPosOneStepAhead ==
    (Finished /\ options.maxSteps >= 1) =>
        /\ EndedByFlag => Outcome.finalPos = LastRecorded
        /\ ~ EndedByFlag =>
              /\ LastRecorded = StateAfter(StartState, Len(Outcome.points) - 1).pos
              /\ Outcome.finalPos = StateAfter(StartState, Len(Outcome.points)).pos
              /\ Len(Outcome.points) = IF tooClose THEN i + 1 ELSE options.maxSteps

\* C27, a run has ended by capture after it moved: finalPos is ahead of the
\* last point
C27_Witness ==
    /\ Finished
    /\ options.maxSteps >= 1
    /\ ~ EndedByFlag
    /\ tooClose
    /\ Len(Outcome.points) >= 2
    /\ Outcome.finalPos # LastRecorded

\* the run ended in the break of the capture rule, on a stepped position
\* inside the goal disc
CapturedInGoal ==
    /\ Finished
    /\ tooClose
    /\ NearSomeMass(Outcome.finalPos)
    /\ InGoalDisc(Outcome.finalPos)

\* the run took maxSteps steps, and the last of them reached the goal disc
ExhaustedInGoal ==
    /\ Finished
    /\ options.maxSteps >= 1
    /\ i = options.maxSteps
    /\ Outcome.finalPos = StateAfter(StartState, options.maxSteps).pos
    /\ InGoalDisc(Outcome.finalPos)

\* C28: the goal test is applied to recorded positions only: a run whose
\* step reaches a position within 0.3 of a mass and within goalRadius of
\* goalPos ends with reachedGoal = false, and so does a run whose
\* maxSteps-th step reaches a position within goalRadius of goalPos; the
\* flag is set only in an iteration that records the position it tests.
C28_GoalTestOnRecordedOnly ==
    /\ [](CapturedInGoal \/ ExhaustedInGoal =>
             /\ ~ Outcome.reachedGoal
             /\ \A k \in 1..Len(Outcome.points) : ~ InGoalDisc(Outcome.points[k]))
    /\ [][(~ reachedGoal /\ reachedGoal') =>
             /\ pos' = pos
             /\ trajectory' = Append(trajectory, RecordPoint(masses, pos))
             /\ InGoalDisc(pos)]_vars

\* C28, a step has moved the particle from outside the goal disc to a
\* position inside it that is within 0.3 of a mass
C28_Witness ==
    /\ CapturedInGoal
    /\ ~ Outcome.reachedGoal
    /\ Len(Outcome.points) >= 1
    /\ Outcome.finalPos # LastRecorded
    /\ ~ InGoalDisc(LastRecorded)

\* C28, the maxSteps-th step has moved the particle into the goal disc
C28_WitnessExhausted ==
    /\ ExhaustedInGoal
    /\ ~ tooClose
    /\ ~ Outcome.reachedGoal
    /\ Len(Outcome.points) = options.maxSteps
    /\ ~ InGoalDisc(LastRecorded)

\* ---------------------------------------------------------------------------
\* Properties of the shots.

\* the updates a flight of n points takes at the animation speed d
Ceil(n, d) == (n + d - 1) \div d

FlightLength == Ceil(Len(projTrajectory), AnimationSpeed)

\* C24: in every state of Game between two handlers, phase = FLYING implies
\* that the projectile's state is FLYING and that its trajectory is the
\* non-empty points array of previewResult, with the index inside it; and
\* when the flight has ended the reported phase is that of the same result.
C24_FlyingHasTrajectory ==
    /\ phase = "flying" =>
          /\ projState = "flying"
          /\ projTrajectory # << >>
          /\ IsSet(previewResult)
          /\ projTrajectory = Val(previewResult).points
          /\ flightIndex < Len(projTrajectory)
    /\ phase \in { "success", "failed" } =>
          /\ projState = "finished"
          /\ IsSet(previewResult)
          /\ projTrajectory = Val(previewResult).points
          /\ phase = "success" <=> Val(previewResult).reachedGoal

\* C24, the second shot of a level is in flight, after a reset, while the
\* sliders have been moved away from the aim it was launched with
C24_Witness ==
    /\ phase = "flying"
    /\ attempts = 2
    /\ frames >= 2
    /\ projState = "flying"
    /\ Val(previewResult).reachedGoal
    /\ aimAngle # GoalAim.angle

\* a step that counts a shot or starts a flight
ShotTaken ==
    \/ attempts' > attempts
    \/ totalShots' # totalShots
    \/ phase # "flying" /\ phase' = "flying"
    \/ projState # "flying" /\ projState' = "flying"

\* C25: Game.launch has an effect only in phase AIMING, where it increments
\* attempts and totalShots by exactly one and moves to FLYING; in no other
\* phase is a shot counted or a flight started, and the game comes back to
\* AIMING, where a new shot is possible, only through resetLevel or loadLevel.
C25_LaunchOnlyWhenAiming ==
    [][ /\ ShotTaken =>
              /\ phase = "aiming"
              /\ phase' = "flying"
              /\ attempts' = attempts + 1
              /\ totalShots' = totalShots + 1
        /\ (phase # "aiming" /\ phase' = "aiming") =>
              handler' \in { "resetLevel", "loadLevel" } ]_vars

\* C25, a shot has failed, the level was reset and a second shot is in flight
C25_Witness ==
    /\ phase = "flying"
    /\ attempts = 2
    /\ totalShots = 2
    /\ ~ Val(previewResult).reachedGoal
    /\ flightIndex = 0

\* C23: after Game.launch in phase AIMING, under repeated frame updates the
\* game eventually leaves FLYING; unless a reset or a level load intervenes
\* it leaves it for SUCCESS or FAILED with the update number
\* ceil(trajectory.length / animationSpeed) since the launch and not before,
\* and for SUCCESS exactly when the result previewed at launch time, which
\* no step of the flight replaces, has reachedGoal = true.
C23_FlightEnds ==
    /\ (phase = "flying") ~> (phase # "flying")
    /\ [](phase = "flying" => frames < FlightLength)
    /\ [][phase = "flying" =>
             /\ phase' \in { "flying", "success", "failed", "aiming" }
             /\ phase' \in { "success", "failed" } =>
                   /\ frames' = FlightLength
                   /\ phase' = "success" <=> Val(previewResult).reachedGoal
             /\ phase' # "aiming" =>
                   UNCHANGED << previewResult, projTrajectory >>]_vars

\* C23, a flight of more than a hundred points has ended in SUCCESS
C23_Witness ==
    /\ phase = "success"
    /\ Len(projTrajectory) > 100
    /\ frames = FlightLength
    /\ flightIndex >= Len(projTrajectory)

\* C23, a flight has ended in FAILED
C23_WitnessFailed ==
    /\ phase = "failed"
    /\ Len(projTrajectory) > 100
    /\ frames = FlightLength

\* ---------------------------------------------------------------- generateLevel

\* the level the running call of generateLevel returned the first time it was
\* called with the same levelId and seed, or Null
FirstReturned ==
    IF handler = "generateLevel" /\ GenerateKey(genLevelId, actualSeed) \in GenerateKeys
    THEN generated[GenerateKey(genLevelId, actualSeed)]
    ELSE Null

\* two levels have the same startPos, goalPos, goalRadius and masses
SameLevel(a, b) ==
    /\ a.startPos = b.startPos
    /\ a.goalPos = b.goalPos
    /\ a.goalRadius = b.goalRadius
    /\ a.masses = b.masses

\* generateMasses has placed or omitted every mass of the candidate
CandidateBuilt ==
    /\ gpc = "masses"
    /\ handler = "generateLevel"
    /\ ~ (massIndex < MassCountFor(genLevelId))

\* C21: generateLevel is reproducible: a call with the levelId and the seed
\* of an earlier call returns a level with the same startPos, goalPos,
\* goalRadius and masses as the earlier call did, whatever mass collection
\* was active before either call and whatever calls of generateLevel or
\* computeTrajectory came before: the call does not run longer than the
\* earlier one, at the attempt the earlier one returned from it builds and
\* validates the same level, and it returns that level.
C21_Reproducible ==
    IsSet(FirstReturned) =>
        /\ genAttempts <= Val(FirstReturned).attempts
        /\ CandidateBuilt /\ genAttempts = Val(FirstReturned).attempts =>
              /\ Val(startAndGoal).startPos = Val(FirstReturned).level.startPos
              /\ Val(startAndGoal).goalPos = Val(FirstReturned).level.goalPos
              /\ GoalRadiusFor(genLevelId) = Val(FirstReturned).level.goalRadius
              /\ genMasses = Val(FirstReturned).level.masses
        /\ gpc = "validate" /\ genAttempts = Val(FirstReturned).attempts =>
              SameLevel(Val(candidate), Val(FirstReturned).level)
        /\ gpc = "return" =>
              /\ genAttempts = Val(FirstReturned).attempts
              /\ SameLevel(Val(candidate), Val(FirstReturned).level)

\* C21, both inputs have returned a level, generateMasses has run on its own,
\* another module has set two masses, and a call that repeats the input of
\* two masses has built its level again while the two foreign masses are
\* still the active collection
C21_Witness ==
    /\ CandidateBuilt
    /\ IsSet(FirstReturned)
    /\ \A key \in GenerateKeys : IsSet(generated[key])
    /\ Len(genMasses) = 2
    /\ masses = << MassFar, MassAtOrigin >>
    /\ masses # Val(FirstReturned).level.masses

\* C22: generateLevel always terminates and returns a non-null Level (a call
\* that has begun comes back, and at its return the level is set: the
\* validated candidate, or the fixed fallback level exactly when no
\* candidate validated).  It builds at most 20 candidates; generateMasses
\* tries a position for a mass only while fewer than 50 were refused, and
\* goes on to the next mass without adding one only after 50 refusals; a
\* candidate is validated with at most 216 simulator runs.
C22_TerminatesWithLevel ==
    /\ (gpc # "idle") ~> (gpc = "idle")
    /\ [](gpc = "return" =>
             /\ IsSet(candidate)
             /\ genAttempts < 20 => setCount = genAttempts + 1
             /\ ~ (genAttempts < 20) => Val(candidate) = FallbackLevel(genLevelId))
    /\ [][gpc' = "return" /\ gpc # "return" =>
             IF gpc = "validate"
             THEN valid /\ genAttempts < 20 /\ candidate' = level
             ELSE gpc = "loop" /\ genAttempts = 20]_vars
    /\ [](gpc # "idle" => genAttempts <= 20 /\ setCount <= 20)
    /\ [](Len(calls) <= 216)
    /\ [](placeAttempts <= 50 /\ Len(genMasses) <= massIndex)
    /\ [][gpc = "masses" /\ gpc' = "masses" =>
             /\ rngSeed' # rngSeed => placeAttempts < 50
             /\ massIndex' # massIndex /\ genMasses' = genMasses => placeAttempts = 50
             /\ massIndex' # massIndex /\ genMasses' # genMasses =>
                   /\ Len(genMasses') = Len(genMasses) + 1
                   /\ placeAttempts < 50]_vars

\* C22, a call of generateLevel by another module is about to return a level
\* of two masses, which validateLevel accepted
C22_Witness ==
    /\ gpc = "return"
    /\ handler = "generateLevel"
    /\ IsSet(candidate)
    /\ setCount = 1
    /\ Len(Val(candidate).masses) = 2
    /\ masses = Val(candidate).masses

\* C22, twenty candidates were rejected after 216 runs each, and the call is
\* about to return the fallback level
C22_WitnessFallback ==
    /\ gpc = "return"
    /\ genAttempts = 20
    /\ setCount = 20
    /\ candidate = Some(FallbackLevel(7))

\* C22, fifty positions were refused for the second of two masses, and
\* generateMasses has gone on without it
C22_WitnessOmitted ==
    /\ gpc = "masses"
    /\ massIndex = 2
    /\ Len(genMasses) = 1
    /\ MassCountFor(genLevelId) = 2

\* C21, a call that repeats an input has come back with its level, after the
\* other input had returned a different level
C21_WitnessReturned ==
    /\ gpc = "return"
    /\ IsSet(FirstReturned)
    /\ \E key \in GenerateKeys :
          /\ IsSet(generated[key])
          /\ ~ SameLevel(Val(generated[key]).level, Val(candidate))
====
